---- MODULE Spec2Model ----
(***************************************************************************)
(* Coordinate transform engine of the geotiff crate: construction of a     *)
(* CoordinateTransform from the three GeoTIFF tags (from_tag_data), the    *)
(* affine, tie-point-and-pixel-scale and tie-points strategies, and the    *)
(* evaluation transform_to_model / transform_to_raster.                    *)
(*                                                                         *)
(* f64 values are modelled as binary floating-point numbers with a         *)
(* significand of MantBits bits (f64 has 53), round-to-nearest-even,       *)
(* signed zeros, infinities and NaN, and the exponent range of f64.        *)
(* A value is the record [k, s, m, e]: kind, sign bit, significand and     *)
(* exponent, standing for (-1)^s * m * 2^e.                                *)
(***************************************************************************)
EXTENDS Integers, Sequences, FiniteSets, TLC

\* Bits of the significand of the modelled floating-point format.
MantBits == 12

\* Largest binary exponent of a finite f64 (f64::MAX_EXP - 1).
F64_MAX_EXP == 1023

----------------------------------------------------------------------------
(* Floating-point arithmetic                                               *)

RECURSIVE Pow2Rec(_)
Pow2Rec(n) == IF n = 0 THEN 1 ELSE 2 * Pow2Rec(n - 1)

Pow2Table == [n \in 0..30 |-> Pow2Rec(n)]

Pow2(n) == Pow2Table[n]

\* Number of significant bits of the natural number n (0 for n = 0).
BitLen(n) == CHOOSE l \in 0..31 : (l = 0 \/ Pow2(l - 1) <= n) /\ (l = 31 \/ n < Pow2(l))

Abs(n) == IF n < 0 THEN -n ELSE n

NaN == [k |-> "nan", s |-> 0, m |-> 0, e |-> 0]

Inf(s) == [k |-> "inf", s |-> s, m |-> 0, e |-> 0]

Zero(s) == [k |-> "fin", s |-> s, m |-> 0, e |-> 0]

IsNaN(a) == a.k = "nan"

IsZero(a) == a.k = "fin" /\ a.m = 0

\* The float nearest to (-1)^s * M * 2^E: round to nearest, ties to even;
\* a result beyond the largest finite value becomes an infinity.
Pack(s, m, e) ==
    IF e + MantBits - 1 > F64_MAX_EXP THEN Inf(s)
    ELSE [k |-> "fin", s |-> s, m |-> m, e |-> e]

\* A significand that rounding carried to MantBits + 1 bits is renormalised.
Carry(s, q, e) ==
    IF q = Pow2(MantBits) THEN Pack(s, Pow2(MantBits - 1), e + 1) ELSE Pack(s, q, e)

\* q with the remainder r dropped below it, half being the weight of a tie.
Nearest(s, q, r, half, e) ==
    Carry(s, IF r > half \/ (r = half /\ q % 2 = 1) THEN q + 1 ELSE q, e)

\* M has k bits more than the significand holds.
Shift(s, M, E, k) ==
    IF k <= 0 THEN Pack(s, M * Pow2(-k), E + k)
    ELSE Nearest(s, M \div Pow2(k), M % Pow2(k), Pow2(k - 1), E + k)

Round(s, M, E) == IF M = 0 THEN Zero(s) ELSE Shift(s, M, E, BitLen(M) - MantBits)

\* i as f64 (exact for the small integers used as inputs).
FromInt(i) == Round(IF i < 0 THEN 1 ELSE 0, Abs(i), 0)

\* n * 2^e as f64.
Scaled(n, e) == Round(IF n < 0 THEN 1 ELSE 0, Abs(n), e)

Xor(s, t) == IF s = t THEN 0 ELSE 1

FNeg(a) == IF IsNaN(a) THEN NaN ELSE [a EXCEPT !.s = 1 - a.s]

FAbs(a) == IF IsNaN(a) THEN NaN ELSE [a EXCEPT !.s = 0]

\* sum * 2^lo as f64 (an exact zero sum is +0).
RoundSum(sum, lo) ==
    IF sum = 0 THEN Zero(0) ELSE Round(IF sum < 0 THEN 1 ELSE 0, Abs(sum), lo)

\* The signed significand of a in units of 2^lo.
Aligned(a, lo) == (IF a.s = 1 THEN -1 ELSE 1) * a.m * Pow2(a.e - lo)

AddAligned(a, b, lo) == RoundSum(Aligned(a, lo) + Aligned(b, lo), lo)

FAddFinite(a, b) ==
    IF a.e - b.e > MantBits + 2 THEN a
    ELSE IF b.e - a.e > MantBits + 2 THEN b
    ELSE AddAligned(a, b, IF a.e >= b.e THEN b.e ELSE a.e)

FAdd(a, b) ==
    IF IsNaN(a) \/ IsNaN(b) THEN NaN
    ELSE IF a.k = "inf" THEN (IF b.k = "inf" /\ a.s # b.s THEN NaN ELSE a)
    ELSE IF b.k = "inf" THEN b
    ELSE IF IsZero(a) /\ IsZero(b) THEN Zero(IF a.s = 1 /\ b.s = 1 THEN 1 ELSE 0)
    ELSE IF IsZero(a) THEN b
    ELSE IF IsZero(b) THEN a
    ELSE FAddFinite(a, b)

FSub(a, b) == FAdd(a, FNeg(b))

FMul(a, b) ==
    IF IsNaN(a) \/ IsNaN(b) THEN NaN
    ELSE IF a.k = "inf" \/ b.k = "inf"
         THEN (IF IsZero(a) \/ IsZero(b) THEN NaN ELSE Inf(Xor(a.s, b.s)))
    ELSE IF IsZero(a) \/ IsZero(b) THEN Zero(Xor(a.s, b.s))
    ELSE Round(Xor(a.s, b.s), a.m * b.m, a.e + b.e)

\* Twice the integer quotient, with a sticky bit for a remainder.
Quotient(n, d) == 2 * (n \div d) + (IF n % d = 0 THEN 0 ELSE 1)

FDiv(a, b) ==
    IF IsNaN(a) \/ IsNaN(b) THEN NaN
    ELSE IF a.k = "inf" THEN (IF b.k = "inf" THEN NaN ELSE Inf(Xor(a.s, b.s)))
    ELSE IF b.k = "inf" THEN Zero(Xor(a.s, b.s))
    ELSE IF IsZero(b) THEN (IF IsZero(a) THEN NaN ELSE Inf(Xor(a.s, b.s)))
    ELSE IF IsZero(a) THEN Zero(Xor(a.s, b.s))
    ELSE Round(Xor(a.s, b.s), Quotient(a.m * Pow2(MantBits + 2), b.m),
               a.e - b.e - (MantBits + 2) - 1)

RECURSIVE ISqrtAcc(_, _, _)
ISqrtAcc(n, r, bit) ==
    IF bit < 0 THEN r
    ELSE IF (r + Pow2(bit)) * (r + Pow2(bit)) <= n
         THEN ISqrtAcc(n, r + Pow2(bit), bit - 1)
         ELSE ISqrtAcc(n, r, bit - 1)

\* Largest r with r * r <= n, for n < 2^30.
ISqrt(n) == ISqrtAcc(n, 0, 14)

\* Twice the integer root r of n, with a sticky bit when n is no square.
Root(n, r) == 2 * r + (IF r * r = n THEN 0 ELSE 1)

\* The root of a.m * 2^a.e, a.e - sh being even.
SqrtShifted(a, sh) ==
    Round(0, Root(a.m * Pow2(sh), ISqrt(a.m * Pow2(sh))), ((a.e - sh) \div 2) - 1)

FSqrt(a) ==
    IF IsNaN(a) THEN NaN
    ELSE IF IsZero(a) THEN a
    ELSE IF a.s = 1 THEN NaN
    ELSE IF a.k = "inf" THEN a
    ELSE SqrtShifted(a, IF (a.e - (MantBits + 2)) % 2 = 0 THEN MantBits + 2 ELSE MantBits + 3)

\* |x| < |y| for x and y that are not NaN.
MagLt(x, y) ==
    IF x.k = "inf" THEN FALSE
    ELSE IF y.k = "inf" THEN TRUE
    ELSE IF IsZero(x) THEN ~IsZero(y)
    ELSE IF IsZero(y) THEN FALSE
    ELSE x.e < y.e \/ (x.e = y.e /\ x.m < y.m)

\* a < b (false when either is NaN; the two zeros are equal).
FLt(a, b) ==
    IF IsNaN(a) \/ IsNaN(b) THEN FALSE
    ELSE IF IsZero(a) /\ IsZero(b) THEN FALSE
    ELSE IF a.s # b.s THEN a.s = 1
    ELSE IF a.s = 0 THEN MagLt(a, b) ELSE MagLt(b, a)

FGt(a, b) == FLt(b, a)

\* a == b of f64 (NaN equals nothing, +0 equals -0).
FEq(a, b) ==
    IF IsNaN(a) \/ IsNaN(b) THEN FALSE
    ELSE IF IsZero(a) /\ IsZero(b) THEN TRUE
    ELSE a = b

FLe(a, b) == FLt(a, b) \/ FEq(a, b)

FGe(a, b) == FLe(b, a)

\* f64::is_sign_positive: the sign bit is clear (so false for -0.0).
IsSignPositive(a) == a.s = 0

\* f64::MAX and f64::MIN.
F64_MAX == [k |-> "fin", s |-> 0, m |-> Pow2(MantBits) - 1, e |-> F64_MAX_EXP + 1 - MantBits]

F64_MIN == FNeg(F64_MAX)

----------------------------------------------------------------------------
(* Option, Result and slices                                               *)

None == [tag |-> "None"]

Some(v) == [tag |-> "Some", v |-> v]

Ok(v) == [tag |-> "Ok", v |-> v]

Err(msg) == [tag |-> "Err", msg |-> msg]

\* A panic (a failed unwrap) instead of a returned value.
Panic == [tag |-> "Panic"]

\* slice[i] with the source's 0-based index.
At(slice, i) == slice[i + 1]

Min(a, b) == IF a < b THEN a ELSE b

Coord(x, y) == [x |-> x, y |-> y]

\* impl Add for Coord
CoordAdd(a, b) == Coord(FAdd(a.x, b.x), FAdd(a.y, b.y))

MODEL_TIE_POINT_TAG == "ModelTiePointTag"

MODEL_PIXEL_SCALE_TAG == "ModelPixelScaleTag"

MODEL_TRANSFORMATION_TAG == "ModelTransformationTag"

FormatError(msg) == Err(msg)

----------------------------------------------------------------------------
(* Affine strategy                                                         *)

\* 10^15, correctly rounded: 5^15 * 2^15, with 5^15 = 30517578125 given by
\* its leading 30 bits and a sticky bit.
TenPow15 == Round(0, 2 * 953674316 + 1, 19)

\* The literal 0.000000000000001 of the invertibility test.
DET_EPSILON == FDiv(FromInt(1), TenPow15)

NotInvertibleMsg == "Provided transformation matrix is not invertible"

\* Determinant with the threshold test applied to a value that counts the
\* translation in: the fault C9's independence of the other entries excludes.
WithTranslation(transform) ==
    FSub(FMul(At(transform, 0), At(transform, 4)), FMul(At(transform, 2), At(transform, 3)))

\* let det = ...
Determinant(transform) ==
    FSub(FMul(At(transform, 0), At(transform, 4)), FMul(At(transform, 1), At(transform, 3)))

\* InverseTransform with the sign of inverse_transform[1] lost: the fault
\* C10's inverse excludes.
SignLost(transform, det) ==
    << FDiv(At(transform, 4), det),
       FDiv(At(transform, 1), det),
       FDiv(FSub(FMul(At(transform, 1), At(transform, 5)),
                 FMul(At(transform, 2), At(transform, 4))), det),
       FDiv(FNeg(At(transform, 3)), det),
       FDiv(At(transform, 0), det),
       FDiv(FAdd(FMul(FNeg(At(transform, 0)), At(transform, 5)),
                 FMul(At(transform, 2), At(transform, 3))), det) >>

\* The six assignments to inverse_transform.
InverseTransform(transform, det) ==
    << FDiv(At(transform, 4), det),
       FDiv(FNeg(At(transform, 1)), det),
       FDiv(FSub(FMul(At(transform, 1), At(transform, 5)),
                 FMul(At(transform, 2), At(transform, 4))), det),
       FDiv(FNeg(At(transform, 3)), det),
       FDiv(At(transform, 0), det),
       FDiv(FAdd(FMul(FNeg(At(transform, 0)), At(transform, 5)),
                 FMul(At(transform, 2), At(transform, 3))), det) >>

\* from_transformation_matrix from the test of the determinant onwards.
WithDeterminant(transform, det) ==
    IF FLt(FAbs(det), DET_EPSILON)
    THEN FormatError(NotInvertibleMsg)
    ELSE Ok([variant |-> "AffineTransform",
             transform |-> transform,
             inverse_transform |-> InverseTransform(transform, det)])

\* let transform = [...]
Coefficients(transformation_matrix) ==
    << At(transformation_matrix, 0), At(transformation_matrix, 1),
       At(transformation_matrix, 3), At(transformation_matrix, 4),
       At(transformation_matrix, 5), At(transformation_matrix, 7) >>

\* Over the coefficients taken from the matrix.
FromCoefficients(transform) == WithDeterminant(transform, Determinant(transform))

from_transformation_matrix(transformation_matrix) ==
    FromCoefficients(Coefficients(transformation_matrix))

transform_by_affine_transform(transform, coord) ==
    Coord(FAdd(FAdd(FMul(coord.x, At(transform, 0)), FMul(coord.y, At(transform, 1))),
               At(transform, 2)),
          FAdd(FAdd(FMul(coord.x, At(transform, 3)), FMul(coord.y, At(transform, 4))),
               At(transform, 5)))

----------------------------------------------------------------------------
(* Tie point and pixel scale strategy                                      *)

\* from_tie_point_and_pixel_scale reading the model point one value early,
\* from the raster z: the fault C6's anchors exclude.
ModelFromZ(tie_points, pixel_scale) ==
    Ok([variant |-> "TiePointAndPixelScale",
        raster_point |-> Coord(At(tie_points, 0), At(tie_points, 1)),
        model_point |-> Coord(At(tie_points, 2), At(tie_points, 3)),
        pixel_scale |-> Coord(At(pixel_scale, 0), At(pixel_scale, 1))])

from_tie_point_and_pixel_scale(tie_points, pixel_scale) ==
    Ok([variant |-> "TiePointAndPixelScale",
        raster_point |-> Coord(At(tie_points, 0), At(tie_points, 1)),
        model_point |-> Coord(At(tie_points, 3), At(tie_points, 4)),
        pixel_scale |-> Coord(At(pixel_scale, 0), At(pixel_scale, 1))])

\* transform_to_model_by_tie_point_and_pixel_scale with the y scale applied
\* as given, like the x scale: the fault C12's sign flip excludes.
YNotNegated(raster_point, model_point, pixel_scale, coord) ==
    Coord(FAdd(FMul(FSub(coord.x, raster_point.x), pixel_scale.x), model_point.x),
          FAdd(FMul(FSub(coord.y, raster_point.y), pixel_scale.y), model_point.y))

transform_to_model_by_tie_point_and_pixel_scale(raster_point, model_point, pixel_scale, coord) ==
    Coord(FAdd(FMul(FSub(coord.x, raster_point.x), pixel_scale.x), model_point.x),
          FAdd(FMul(FSub(coord.y, raster_point.y), FNeg(pixel_scale.y)), model_point.y))

transform_to_raster_by_tie_point_and_pixel_scale(raster_point, model_point, pixel_scale, coord) ==
    Coord(FAdd(FDiv(FSub(coord.x, model_point.x), pixel_scale.x), raster_point.x),
          FAdd(FDiv(FSub(coord.y, model_point.y), FNeg(pixel_scale.y)), raster_point.y))

----------------------------------------------------------------------------
(* Tie points strategy: mesh construction                                  *)

CoordDiv(c, len) == Coord(FDiv(c.x, len), FDiv(c.y, len))

\* CoordExt::normalize
normalize(c) == CoordDiv(c, FSqrt(FAdd(FMul(c.x, c.x), FMul(c.y, c.y))))

\* <[T]>::starts_with
StartsWith(slice, prefix) ==
    /\ Len(prefix) <= Len(slice)
    /\ \A j \in 1..Len(prefix) : slice[j] = prefix[j]

\* contains_sequence without the wrap from the last hull entry to the first.
ContainsUnwrapped(hull, seq) ==
    \E i \in 0..(Len(hull) - 1) : StartsWith(SubSeq(hull, i + 1, Len(hull)), seq)

\* contains_sequence matching the sequence in either direction.
ContainsEitherWay(hull, seq) ==
    \E i \in 0..(Len(hull) - 1) : \E s \in {seq, [k \in 1..Len(seq) |-> seq[Len(seq) + 1 - k]]} :
        /\ StartsWith(SubSeq(hull, i + 1, Len(hull)), SubSeq(s, 1, Min(Len(s), Len(hull) - i)))
        /\ StartsWith(hull, SubSeq(s, Min(Len(s), Len(hull) - i) + 1, Len(s)))

\* The slice operations of contains_sequence stay within bounds: len - i does
\* not underflow, self[i..] starts within self and seq.split_at(mid) splits
\* within seq.
SlicesInBounds(hull, seq) ==
    \A i \in 0..(Len(hull) - 1) :
        /\ Len(hull) - i >= 0
        /\ i <= Len(hull)
        /\ Min(Len(seq), Len(hull) - i) <= Len(seq)

\* HullExt::contains_sequence
contains_sequence(hull, seq) ==
    LET len == Len(hull)
    IN  \E i \in 0..(len - 1) :
            LET mid == Min(Len(seq), len - i)
                a == SubSeq(seq, 1, mid)
                b == SubSeq(seq, mid + 1, Len(seq))
            IN  StartsWith(SubSeq(hull, i + 1, len), a) /\ StartsWith(hull, b)

\* let direction = ...
Direction(prev_curr, next_curr) ==
    normalize(Coord(FAdd(prev_curr.x, next_curr.x), FAdd(prev_curr.y, next_curr.y)))

\* let prev_curr = ..., let next_curr = ...
Bisector(prev, curr, next) ==
    Direction(normalize(Coord(FSub(curr.x, prev.x), FSub(curr.y, prev.y))),
              normalize(Coord(FSub(curr.x, next.x), FSub(curr.y, next.y))))

\* The direction stored for hull position i of build_faces' first loop.
BisectorAt(points, hull, i) ==
    Bisector(At(points, At(hull, i)),
             At(points, At(hull, (i + 1) % Len(hull))),
             At(points, At(hull, (i + 2) % Len(hull))))

\* angle_bisectors after the iterations 0..i-1 of the loop over the hull
\* (indexed from 1: entry p + 1 belongs to point p).
RECURSIVE BisectorLoop(_, _, _)
BisectorLoop(points, hull, i) ==
    IF i = 0 THEN [p \in 1..Len(points) |-> None]
    ELSE [BisectorLoop(points, hull, i - 1) EXCEPT
              ![At(hull, i % Len(hull)) + 1] = Some(BisectorAt(points, hull, i - 1))]

\* The loop over the hull stopped one iteration early.
BisectorsUnclosed(points, hull) ==
    BisectorLoop(points, hull, IF Len(hull) = 0 THEN 0 ELSE Len(hull) - 1)

angle_bisectors(points, hull) == BisectorLoop(points, hull, Len(hull))

\* The vertices whose angle_bisectors entries the arm taken for the chunk
\* unwraps: none for a face without boundary and for a closed face.
RayOrigins(hull, chunk) ==
    IF contains_sequence(hull, SubSeq(chunk, 1, 2)) THEN
        IF contains_sequence(hull, SubSeq(chunk, 2, 3)) THEN
            IF contains_sequence(hull, <<chunk[3], chunk[1]>>) THEN << >>
            ELSE <<chunk[3], chunk[1]>>
        ELSE IF contains_sequence(hull, <<chunk[3], chunk[1]>>) THEN <<chunk[2], chunk[3]>>
        ELSE <<chunk[2], chunk[1]>>
    ELSE IF contains_sequence(hull, SubSeq(chunk, 2, 3)) THEN
        IF contains_sequence(hull, <<chunk[3], chunk[1]>>) THEN <<chunk[1], chunk[2]>>
        ELSE <<chunk[3], chunk[2]>>
    ELSE IF contains_sequence(hull, <<chunk[3], chunk[1]>>) THEN <<chunk[1], chunk[3]>>
    ELSE << >>

Open(coords, from_direction, to_direction) ==
    [kind |-> "Open", coords |-> coords,
     from_direction |-> from_direction, to_direction |-> to_direction]

Closed(coords) == [kind |-> "Closed", coords |-> coords]

\* The face of one triangle (chunk) of build_faces; a direction of None
\* stands for the unwrap of a missing bisector.
BuildFace(points, hull, bisectors, chunk) ==
    LET i1 == At(chunk, 0)
        i2 == At(chunk, 1)
        i3 == At(chunk, 2)
        b12 == contains_sequence(hull, SubSeq(chunk, 1, 2))
        b23 == contains_sequence(hull, SubSeq(chunk, 2, 3))
        b31 == contains_sequence(hull, <<i3, i1>>)
        c1 == At(points, i1)
        c2 == At(points, i2)
        c3 == At(points, i3)
        bis(i) == At(bisectors, i)
        boundary ==
            IF b12 THEN
                IF b23 THEN
                    IF b31 THEN None
                    ELSE Some(Open(<<c3, c1>>, bis(i3), bis(i1)))
                ELSE IF b31 THEN Some(Open(<<c2, c3>>, bis(i2), bis(i3)))
                ELSE Some(Open(<<c2, c3, c1>>, bis(i2), bis(i1)))
            ELSE IF b23 THEN
                IF b31 THEN Some(Open(<<c1, c2>>, bis(i1), bis(i2)))
                ELSE Some(Open(<<c3, c1, c2>>, bis(i3), bis(i2)))
            ELSE IF b31 THEN Some(Open(<<c1, c2, c3>>, bis(i1), bis(i3)))
            ELSE Some(Closed(<<c1, c2, c3, c1>>))
    IN  [boundary |-> boundary, support_points |-> <<c1, c2, c3>>]

\* A face whose construction unwrapped a missing bisector.
FaceUnwrapFailed(face) ==
    /\ face.boundary # None
    /\ face.boundary.v.kind = "Open"
    /\ (face.boundary.v.from_direction = None \/ face.boundary.v.to_direction = None)

\* The face as stored: the unwrapped directions.
Unwrapped(face) ==
    IF face.boundary # None /\ face.boundary.v.kind = "Open"
    THEN [face EXCEPT !.boundary.v.from_direction = face.boundary.v.from_direction.v,
                      !.boundary.v.to_direction = face.boundary.v.to_direction.v]
    ELSE face

\* The faces collected, unless the construction of one panicked.
Collect(faces) ==
    IF \E t \in 1..Len(faces) : FaceUnwrapFailed(faces[t])
    THEN Panic
    ELSE Ok([t \in 1..Len(faces) |-> Unwrapped(faces[t])])

\* A wedge of three coordinates cut down to its two end coordinates.
EndsOnly(face) ==
    IF face.boundary # None /\ face.boundary.v.kind = "Open" /\ Len(face.boundary.v.coords) = 3
    THEN [face EXCEPT !.boundary.v.coords = <<face.boundary.v.coords[1], face.boundary.v.coords[3]>>]
    ELSE face

\* triangles.chunks(3).map(..) with every wedge spanning two coordinates only.
MapChunksToEnds(points, hull, triangles, bisectors) ==
    [t \in 1..(Len(triangles) \div 3) |->
        EndsOnly(BuildFace(points, hull, bisectors, SubSeq(triangles, 3 * t - 2, 3 * t)))]

\* A wedge of two coordinates with its two rays exchanged.
RaysExchanged(face) ==
    IF face.boundary # None /\ face.boundary.v.kind = "Open" /\ Len(face.boundary.v.coords) = 2
    THEN [face EXCEPT !.boundary.v.from_direction = face.boundary.v.to_direction,
                      !.boundary.v.to_direction = face.boundary.v.from_direction]
    ELSE face

\* triangles.chunks(3).map(..) with from_direction and to_direction exchanged
\* in the wedges closed at one edge.
MapChunksRaysExchanged(points, hull, triangles, bisectors) ==
    [t \in 1..(Len(triangles) \div 3) |->
        RaysExchanged(BuildFace(points, hull, bisectors, SubSeq(triangles, 3 * t - 2, 3 * t)))]

\* triangles.chunks(3).map(..)
MapChunks(points, hull, triangles, bisectors) ==
    [t \in 1..(Len(triangles) \div 3) |->
        BuildFace(points, hull, bisectors, SubSeq(triangles, 3 * t - 2, 3 * t))]

\* build_faces: Panic when an unwrap fails, else the faces, one per triangle.
build_faces(points, triangulation) ==
    Collect(MapChunks(points, triangulation.hull, triangulation.triangles,
                      angle_bisectors(points, triangulation.hull)))

----------------------------------------------------------------------------
(* Tie points strategy: faces                                              *)

\* The closure `check` of Face::contains.
check(c1, c2, coord) ==
    IsSignPositive(FSub(FMul(FSub(c2.x, c1.x), FSub(coord.y, c1.y)),
                        FMul(FSub(c2.y, c1.y), FSub(coord.x, c1.x))))

\* Face::contains with the closing edge c3 -> c1 of a closed triangle left out.
ContainsUnclosed(face, coord) ==
    IF face.boundary = None THEN TRUE
    ELSE IF face.boundary.v.kind = "Open"
         THEN /\ check(CoordAdd(At(face.boundary.v.coords, 0), face.boundary.v.from_direction), At(face.boundary.v.coords, 1), coord)
              /\ check(At(face.boundary.v.coords, 1), CoordAdd(At(face.boundary.v.coords, 1), face.boundary.v.to_direction), coord)
              /\ \A w \in 0..(Len(face.boundary.v.coords) - 2) : check(At(face.boundary.v.coords, w), At(face.boundary.v.coords, w + 1), coord)
         ELSE \A i \in 0..1 : check(At(face.boundary.v.coords, i), At(face.boundary.v.coords, i + 1), coord)

\* Face::contains
contains(face, coord) ==
    IF face.boundary = None THEN TRUE
    ELSE LET boundary == face.boundary.v
             coords == boundary.coords
         IN  IF boundary.kind = "Open"
             THEN /\ check(CoordAdd(At(coords, 0), boundary.from_direction), At(coords, 1), coord)
                  /\ check(At(coords, 1), CoordAdd(At(coords, 1), boundary.to_direction), coord)
                  /\ \A w \in 0..(Len(coords) - 2) : check(At(coords, w), At(coords, w + 1), coord)
             ELSE LET len == Len(face.support_points)
                  IN  \A i \in 0..len : check(At(coords, i), At(coords, (i + 1) % len), coord)

\* let d = ...
LocateD(a, b, c) ==
    FAdd(FSub(FMul(c.x, FSub(a.y, b.y)), FMul(b.x, FSub(a.y, c.y))),
         FMul(a.x, FSub(b.y, c.y)))

\* The pair [u, v] returned.
LocateUV(a, b, c, d, coord) ==
    << FDiv(FNeg(FAdd(FSub(FMul(coord.x, FSub(a.y, c.y)), FMul(c.x, FSub(a.y, coord.y))),
                      FMul(a.x, FSub(c.y, coord.y)))), d),
       FDiv(FAdd(FSub(FMul(coord.x, FSub(a.y, b.y)), FMul(b.x, FSub(a.y, coord.y))),
                 FMul(a.x, FSub(b.y, coord.y))), d) >>

\* locate over the support points a, b, c.
LocateIn(a, b, c, coord) == LocateUV(a, b, c, LocateD(a, b, c), coord)

\* Face::locate
locate(face, coord) ==
    LocateIn(At(face.support_points, 0), At(face.support_points, 1),
             At(face.support_points, 2), coord)

\* One component of Face::interpolate.
InterpolateAxis(u, v, a, b, c) ==
    FAdd(FAdd(FAdd(FSub(FMul(FNeg(u), a), FMul(v, a)), a), FMul(u, b)), FMul(v, c))

\* interpolate over the support points a, b, c.
InterpolateIn(u, v, a, b, c) ==
    Coord(InterpolateAxis(u, v, a.x, b.x, c.x), InterpolateAxis(u, v, a.y, b.y, c.y))

\* Face::interpolate
interpolate(face, params) ==
    InterpolateIn(At(params, 0), At(params, 1), At(face.support_points, 0),
                  At(face.support_points, 1), At(face.support_points, 2))

----------------------------------------------------------------------------
(* Tie points strategy: spatial index and evaluation                       *)

\* rstar's componentwise minimum and maximum of two points.
FMin(a, b) == IF FLt(a, b) THEN a ELSE b

FMax(a, b) == IF FGt(a, b) THEN a ELSE b

\* AABB::from_corners
from_corners(p1, p2) ==
    [lower |-> Coord(FMin(p1.x, p2.x), FMin(p1.y, p2.y)),
     upper |-> Coord(FMax(p1.x, p2.x), FMax(p1.y, p2.y))]

\* The box grown to hold the point c.
Extended(box, c) ==
    [lower |-> Coord(FMin(box.lower.x, c.x), FMin(box.lower.y, c.y)),
     upper |-> Coord(FMax(box.upper.x, c.x), FMax(box.upper.y, c.y))]

\* AABB::from_points over the first n points.
RECURSIVE from_points(_, _)
from_points(coords, n) ==
    IF n = 0 THEN [lower |-> Coord(F64_MAX, F64_MAX), upper |-> Coord(F64_MIN, F64_MIN)]
    ELSE Extended(from_points(coords, n - 1), coords[n])

\* One iteration of compute_envelope's loop over the coords.
EnvelopeCoord(box, c) ==
    [lower |-> Coord(IF FLt(c.x, box.lower.x) THEN c.x ELSE box.lower.x,
                     IF FLt(c.y, box.lower.y) THEN c.y ELSE box.lower.y),
     upper |-> Coord(IF FGt(c.x, box.upper.x) THEN c.x ELSE box.upper.x,
                     IF FGt(c.y, box.upper.y) THEN c.y ELSE box.upper.y)]

\* lower and upper of compute_envelope after its loop over the first n coords.
RECURSIVE EnvelopeCoords(_, _)
EnvelopeCoords(coords, n) ==
    IF n = 0 THEN [lower |-> Coord(F64_MAX, F64_MAX), upper |-> Coord(F64_MIN, F64_MIN)]
    ELSE EnvelopeCoord(EnvelopeCoords(coords, n - 1), coords[n])

\* The box opened towards the normal (nx, ny) of a direction.
EnvelopeNormal(box, nx, ny) ==
    [lower |-> Coord(IF IsSignPositive(nx) THEN box.lower.x ELSE F64_MIN,
                     IF IsSignPositive(ny) THEN box.lower.y ELSE F64_MIN),
     upper |-> Coord(IF IsSignPositive(nx) THEN F64_MAX ELSE box.upper.x,
                     IF IsSignPositive(ny) THEN F64_MAX ELSE box.upper.y)]

\* One iteration of compute_envelope's loop over the two directions.
EnvelopeDirection(box, direction) == EnvelopeNormal(box, direction.y, FNeg(direction.x))

\* AABB::from_corners(lower, upper) at the end of the Open arm.
FromBox(box) == from_corners(box.lower, box.upper)

\* TreeItem::compute_envelope
compute_envelope(face) ==
    IF face.boundary = None
    THEN from_corners(Coord(F64_MIN, F64_MIN), Coord(F64_MAX, F64_MAX))
    ELSE IF face.boundary.v.kind = "Open"
    THEN FromBox(EnvelopeDirection(
                     EnvelopeDirection(
                         EnvelopeCoords(face.boundary.v.coords, Len(face.boundary.v.coords)),
                         face.boundary.v.from_direction),
                     face.boundary.v.to_direction))
    ELSE from_points(face.boundary.v.coords, Len(face.boundary.v.coords))

\* TreeItem::new (the mesh reference is the mesh the index is built over).
TreeItem(mesh, index) == [index |-> index, envelope |-> compute_envelope(At(mesh, index))]

\* RTree::bulk_load over the items of the closed faces only.
BulkLoadClosed(mesh) ==
    SelectSeq([i \in 1..Len(mesh) |-> TreeItem(mesh, i - 1)],
              LAMBDA item : At(mesh, item.index).boundary # None
                              /\ At(mesh, item.index).boundary.v.kind = "Closed")

\* RTree::bulk_load over one item per face.
bulk_load(mesh) == [i \in 1..Len(mesh) |-> TreeItem(mesh, i - 1)]

\* AABB::intersects with the envelope of a single point.
EnvelopeIntersectsPoint(envelope, coord) ==
    /\ FLe(envelope.lower.x, coord.x) /\ FLe(envelope.lower.y, coord.y)
    /\ FGe(envelope.upper.x, coord.x) /\ FGe(envelope.upper.y, coord.y)

\* The items locate_in_envelope_intersecting yields that pass the filter of find.
Matching(source_index, source_mesh, coord) ==
    {i \in 1..Len(source_index) :
        /\ EnvelopeIntersectsPoint(source_index[i].envelope, coord)
        /\ contains(At(source_mesh, source_index[i].index), coord)}

\* The interpolation in the face found, or the panic of the unwrap.
Interpolated(found, source_index, source_mesh, target_mesh, coord) ==
    IF found = {} THEN {Panic}
    ELSE {interpolate(At(target_mesh, source_index[i].index),
                      locate(At(source_mesh, source_index[i].index), coord)) : i \in found}

\* transform_by_tie_points: the values the call can return. The index yields
\* its items in an order of its own, so find may stop at any matching item;
\* with no matching item the unwrap panics.
transform_by_tie_points(source_index, source_mesh, target_mesh, coord) ==
    Interpolated(Matching(source_index, source_mesh, coord),
                 source_index, source_mesh, target_mesh, coord)

\* One point per chunk of 6 values, taken at offset off of the chunk.
ChunkPoints(tie_points, off) ==
    [g \in 1..(Len(tie_points) \div 6) |->
        Coord(At(tie_points, 6 * (g - 1) + off), At(tie_points, 6 * (g - 1) + off + 1))]

\* Ok(CoordinateTransform::TiePoints { .. }) over the two meshes.
TiePoints(raster_mesh, model_mesh) ==
    IF raster_mesh = Panic \/ model_mesh = Panic THEN Panic
    ELSE Ok([variant |-> "TiePoints",
             raster_mesh |-> raster_mesh.v,
             raster_index |-> bulk_load(raster_mesh.v),
             model_mesh |-> model_mesh.v,
             model_index |-> bulk_load(model_mesh.v)])

\* from_tie_points with the model mesh built from a triangulation of its own,
\* whose triangles start at another vertex: the fault C14's shared topology
\* excludes.
ModelTriangulatedApart(tie_points, triangulation) ==
    TiePoints(build_faces(ChunkPoints(tie_points, 0), triangulation),
              build_faces(ChunkPoints(tie_points, 3),
                          [triangles |-> [i \in 1..Len(triangulation.triangles) |->
                               triangulation.triangles[3 * ((i - 1) \div 3) + (i % 3) + 1]],
                           hull |-> triangulation.hull]))

\* from_tie_points, given what delaunator::triangulate returned for the raster points.
from_tie_points(tie_points, triangulation) ==
    TiePoints(build_faces(ChunkPoints(tie_points, 0), triangulation),
              build_faces(ChunkPoints(tie_points, 3), triangulation))

----------------------------------------------------------------------------
(* CoordinateTransform                                                     *)

PixelScaleLenMsg == "Number values in " \o MODEL_PIXEL_SCALE_TAG \o " must be equal to 3"

TiePointEmptyMsg == "Number of values in " \o MODEL_TIE_POINT_TAG \o " must be greater than 0"

TiePointLenMsg == "Number of values in " \o MODEL_TIE_POINT_TAG \o " must be divisible by 6"

TransformationLenMsg == "Number of values in " \o MODEL_TRANSFORMATION_TAG \o " must be equal to 16"

PixelScaleExclusiveMsg ==
    MODEL_PIXEL_SCALE_TAG \o " must not be specified when " \o MODEL_TRANSFORMATION_TAG \o " is present"

TiePointExclusiveMsg ==
    MODEL_TIE_POINT_TAG \o " must not be specified when " \o MODEL_TRANSFORMATION_TAG \o " is present"

TiePointMissingMsg ==
    MODEL_TIE_POINT_TAG \o " must be present when " \o MODEL_TRANSFORMATION_TAG \o " is missing"

PixelScaleMissingMsg ==
    MODEL_PIXEL_SCALE_TAG \o " must be specified when " \o MODEL_TIE_POINT_TAG \o " contains 6 values"

NotSupportedMsg == "Transformation by tie points is not supported"

\* Dispatch that lets a matrix override tie points given with it: the fault
\* C3 excludes.
MatrixOverrides(pixel_scale, tie_points, transformation_matrix, tie_points_feature, triangulation) ==
    IF transformation_matrix # None THEN
        IF pixel_scale # None THEN FormatError(PixelScaleExclusiveMsg)
        ELSE from_transformation_matrix(transformation_matrix.v)
    ELSE IF tie_points = None THEN FormatError(TiePointMissingMsg)
    ELSE IF Len(tie_points.v) = 6 THEN
        IF pixel_scale = None THEN FormatError(PixelScaleMissingMsg)
        ELSE from_tie_point_and_pixel_scale(tie_points.v, pixel_scale.v)
    ELSE IF tie_points_feature THEN from_tie_points(tie_points.v, triangulation)
    ELSE FormatError(NotSupportedMsg)

\* Dispatch that asks for the pixel scale before the tie points: the fault
\* C4 excludes.
ScaleFirst(pixel_scale, tie_points, transformation_matrix, tie_points_feature, triangulation) ==
    IF transformation_matrix # None THEN
        IF pixel_scale # None THEN FormatError(PixelScaleExclusiveMsg)
        ELSE IF tie_points # None THEN FormatError(TiePointExclusiveMsg)
        ELSE from_transformation_matrix(transformation_matrix.v)
    ELSE IF pixel_scale = None THEN FormatError(PixelScaleMissingMsg)
    ELSE IF tie_points = None THEN FormatError(TiePointMissingMsg)
    ELSE IF Len(tie_points.v) = 6
    THEN from_tie_point_and_pixel_scale(tie_points.v, pixel_scale.v)
    ELSE IF tie_points_feature THEN from_tie_points(tie_points.v, triangulation)
    ELSE FormatError(NotSupportedMsg)

\* Dispatch that, in a build without the tie-points feature, uses the first
\* tie point with the pixel scale: the silent fallback C7 excludes.
FallsBack(pixel_scale, tie_points, transformation_matrix, tie_points_feature, triangulation) ==
    IF transformation_matrix # None THEN
        IF pixel_scale # None THEN FormatError(PixelScaleExclusiveMsg)
        ELSE IF tie_points # None THEN FormatError(TiePointExclusiveMsg)
        ELSE from_transformation_matrix(transformation_matrix.v)
    ELSE IF tie_points = None THEN FormatError(TiePointMissingMsg)
    ELSE IF Len(tie_points.v) = 6 THEN
        IF pixel_scale = None THEN FormatError(PixelScaleMissingMsg)
        ELSE from_tie_point_and_pixel_scale(tie_points.v, pixel_scale.v)
    ELSE IF tie_points_feature THEN from_tie_points(tie_points.v, triangulation)
    ELSE IF pixel_scale # None
    THEN from_tie_point_and_pixel_scale(tie_points.v, pixel_scale.v)
    ELSE FormatError(NotSupportedMsg)

\* The part of from_tag_data after the three length validations.
Dispatch(pixel_scale, tie_points, transformation_matrix, tie_points_feature, triangulation) ==
    IF transformation_matrix # None THEN
        IF pixel_scale # None THEN FormatError(PixelScaleExclusiveMsg)
        ELSE IF tie_points # None THEN FormatError(TiePointExclusiveMsg)
        ELSE from_transformation_matrix(transformation_matrix.v)
    ELSE IF tie_points = None THEN FormatError(TiePointMissingMsg)
    ELSE IF Len(tie_points.v) = 6 THEN
        IF pixel_scale = None THEN FormatError(PixelScaleMissingMsg)
        ELSE from_tie_point_and_pixel_scale(tie_points.v, pixel_scale.v)
    ELSE IF tie_points_feature THEN from_tie_points(tie_points.v, triangulation)
    ELSE FormatError(NotSupportedMsg)

\* from_tag_data without the validation of the pixel scale's length: the
\* fault C8 excludes.
ScaleUnchecked(pixel_scale_data, model_tie_points_data, model_transformation_data, tie_points_feature, triangulation) ==
    IF model_tie_points_data # None /\ Len(model_tie_points_data.v) = 0
    THEN FormatError(TiePointEmptyMsg)
    ELSE IF model_tie_points_data # None /\ Len(model_tie_points_data.v) % 6 # 0
    THEN FormatError(TiePointLenMsg)
    ELSE IF model_transformation_data # None /\ Len(model_transformation_data.v) # 16
    THEN FormatError(TransformationLenMsg)
    ELSE Dispatch(pixel_scale_data, model_tie_points_data, model_transformation_data,
                  tie_points_feature, triangulation)

\* from_tag_data with the presence and exclusivity rules of a matrix ahead
\* of the length validations.
ExclusivityFirst(pixel_scale_data, model_tie_points_data, model_transformation_data, tie_points_feature, triangulation) ==
    IF model_transformation_data # None /\ pixel_scale_data # None
    THEN FormatError(PixelScaleExclusiveMsg)
    ELSE IF model_transformation_data # None /\ model_tie_points_data # None
    THEN FormatError(TiePointExclusiveMsg)
    ELSE IF pixel_scale_data # None /\ Len(pixel_scale_data.v) # 3
    THEN FormatError(PixelScaleLenMsg)
    ELSE IF model_tie_points_data # None /\ Len(model_tie_points_data.v) = 0
    THEN FormatError(TiePointEmptyMsg)
    ELSE IF model_tie_points_data # None /\ Len(model_tie_points_data.v) % 6 # 0
    THEN FormatError(TiePointLenMsg)
    ELSE IF model_transformation_data # None /\ Len(model_transformation_data.v) # 16
    THEN FormatError(TransformationLenMsg)
    ELSE Dispatch(pixel_scale_data, model_tie_points_data, model_transformation_data,
                  tie_points_feature, triangulation)

\* CoordinateTransform::from_tag_data, for a build with or without the
\* tie-points feature; triangulation is what delaunator::triangulate returns
\* if from_tie_points is reached.
from_tag_data(pixel_scale_data, model_tie_points_data, model_transformation_data, tie_points_feature, triangulation) ==
    IF pixel_scale_data # None /\ Len(pixel_scale_data.v) # 3
    THEN FormatError(PixelScaleLenMsg)
    ELSE IF model_tie_points_data # None /\ Len(model_tie_points_data.v) = 0
    THEN FormatError(TiePointEmptyMsg)
    ELSE IF model_tie_points_data # None /\ Len(model_tie_points_data.v) % 6 # 0
    THEN FormatError(TiePointLenMsg)
    ELSE IF model_transformation_data # None /\ Len(model_transformation_data.v) # 16
    THEN FormatError(TransformationLenMsg)
    ELSE Dispatch(pixel_scale_data, model_tie_points_data, model_transformation_data,
                  tie_points_feature, triangulation)

\* CoordinateTransform::transform_to_model: the values the call can return.
\* transform_to_model searching the model mesh and interpolating in the
\* raster mesh.
ModelMeshSearched(self, coord) ==
    IF self.variant = "AffineTransform"
    THEN {transform_by_affine_transform(self.transform, coord)}
    ELSE IF self.variant = "TiePointAndPixelScale"
    THEN {transform_to_model_by_tie_point_and_pixel_scale(
              self.raster_point, self.model_point, self.pixel_scale, coord)}
    ELSE transform_by_tie_points(self.model_index, self.model_mesh, self.raster_mesh, coord)

transform_to_model(self, coord) ==
    IF self.variant = "AffineTransform"
    THEN {transform_by_affine_transform(self.transform, coord)}
    ELSE IF self.variant = "TiePointAndPixelScale"
    THEN {transform_to_model_by_tie_point_and_pixel_scale(
              self.raster_point, self.model_point, self.pixel_scale, coord)}
    ELSE transform_by_tie_points(self.raster_index, self.raster_mesh, self.model_mesh, coord)

\* CoordinateTransform::transform_to_raster: the values the call can return.
transform_to_raster(self, coord) ==
    IF self.variant = "AffineTransform"
    THEN {transform_by_affine_transform(self.inverse_transform, coord)}
    ELSE IF self.variant = "TiePointAndPixelScale"
    THEN {transform_to_raster_by_tie_point_and_pixel_scale(
              self.raster_point, self.model_point, self.pixel_scale, coord)}
    ELSE transform_by_tie_points(self.model_index, self.model_mesh, self.raster_mesh, coord)

----------------------------------------------------------------------------
(* DecoderExt                                                              *)

\* A tag whose value into_f64_vec cannot convert.
Unreadable == [tag |-> "Unreadable"]

DecodeErrorMsg == "tag value is not a list of f64"

\* Ok(Some(CoordinateTransform::from_tag_data(..)?))
Wrapped(made) == IF made.tag = "Ok" THEN Ok(Some(made.v)) ELSE made

\* coordinate_transform that validates an image without any of the tags:
\* the fault C5 excludes.
AlwaysValidates(pixel_scale_tag, tie_points_tag, transformation_tag, tie_points_feature, triangulation) ==
    IF Unreadable \in {pixel_scale_tag, tie_points_tag, transformation_tag}
    THEN Err(DecodeErrorMsg)
    ELSE Wrapped(from_tag_data(pixel_scale_tag, tie_points_tag, transformation_tag,
                               tie_points_feature, triangulation))

\* DecoderExt::coordinate_transform over the three tags as find_tag returns them.
coordinate_transform(pixel_scale_tag, tie_points_tag, transformation_tag, tie_points_feature, triangulation) ==
    IF Unreadable \in {pixel_scale_tag, tie_points_tag, transformation_tag}
    THEN Err(DecodeErrorMsg)
    ELSE IF pixel_scale_tag = None /\ tie_points_tag = None /\ transformation_tag = None
    THEN Ok(None)
    ELSE Wrapped(from_tag_data(pixel_scale_tag, tie_points_tag, transformation_tag,
                               tie_points_feature, triangulation))

----------------------------------------------------------------------------
(* GeoTiff                                                                 *)

\* RasterType
RasterPixelIsArea == "RasterPixelIsArea"

RasterPixelIsPoint == "RasterPixelIsPoint"

\* raster_offset that shifts the images whose pixels are areas: the fault
\* C16's offsets exclude.
AreaShifted(raster_type) ==
    IF raster_type = Some(RasterPixelIsArea) THEN Scaled(-1, -1) ELSE Zero(0)

\* GeoTiff::raster_offset
raster_offset(raster_type) ==
    IF raster_type = Some(RasterPixelIsPoint) THEN Scaled(-1, -1) ELSE Zero(0)

\* f64 as usize for a value below 2^30: NaN and negative values give 0, the
\* fraction is dropped.
AsUsize(a) ==
    IF IsNaN(a) \/ a.s = 1 \/ IsZero(a) THEN 0
    ELSE IF a.e >= 0 THEN a.m * Pow2(a.e)
    ELSE IF -a.e > 30 THEN 0
    ELSE a.m \div Pow2(-a.e)

\* IndexInWindow with the far edges taken into the window: the fault C15's
\* half-open window excludes.
WindowClosed(raster_width, raster_height, num_samples, x, y, sample) ==
    IF \/ FLt(x, Zero(0)) \/ FGt(x, FromInt(raster_width))
       \/ FLt(y, Zero(0)) \/ FGt(y, FromInt(raster_height))
    THEN None
    ELSE Some((AsUsize(y) * raster_width + AsUsize(x)) * num_samples + sample)

\* compute_index from the test of the window onwards, over the coordinates
\* with the raster offset subtracted.
IndexInWindow(raster_width, raster_height, num_samples, x, y, sample) ==
    IF \/ FLt(x, Zero(0)) \/ FGe(x, FromInt(raster_width))
       \/ FLt(y, Zero(0)) \/ FGe(y, FromInt(raster_height))
    THEN None
    ELSE Some((AsUsize(y) * raster_width + AsUsize(x)) * num_samples + sample)

\* compute_index after the coordinate is mapped to raster space.
IndexOfRaster(self, coord, sample) ==
    IF coord = Panic THEN Panic
    ELSE IndexInWindow(self.raster_width, self.raster_height, self.num_samples,
                       FSub(coord.x, raster_offset(self.raster_type)),
                       FSub(coord.y, raster_offset(self.raster_type)), sample)

\* let mut coord = match coordinate_transform { .. }: the values it can take.
RasterCoords(self_transform, coord) ==
    IF self_transform = None THEN {coord}
    ELSE transform_to_raster(self_transform.v, coord)

\* GeoTiff::compute_index: the values the call can return, a panic when the
\* sample is out of bounds or the transform panics.
compute_index(self, self_transform, coord, sample) ==
    IF sample >= self.num_samples THEN {Panic}
    ELSE {IndexOfRaster(self, c, sample) : c \in RasterCoords(self_transform, coord)}

\* The raster value stored at an index: the data hold at every index the
\* index itself.
RasterValue(index) == [tag |-> "RasterValue", v |-> index]

\* RasterData::get_value; beyond the end of the data the indexing panics.
get_value(self, index) ==
    IF index < self.raster_width * self.raster_height * self.num_samples
    THEN RasterValue(index) ELSE Panic

\* Some(value) of get_value_at, or the panic of get_value.
SomeValue(value) == IF value = Panic THEN Panic ELSE Some(value)

\* get_value_at after compute_index(coord, sample)?.
ValueOfIndex(self, index) ==
    IF index = Panic \/ index = None THEN index ELSE SomeValue(get_value(self, index.v))

\* GeoTiff::get_value_at: the values the call can return.
get_value_at(self, self_transform, coord, sample) ==
    {ValueOfIndex(self, index) : index \in compute_index(self, self_transform, coord, sample)}

\* get_value_at_pixel with the check of the sample ahead of the check of
\* the pixel bounds.
PixelSampleFirst(self, x, y, sample) ==
    IF sample >= self.num_samples THEN Panic
    ELSE IF x >= self.raster_width \/ y >= self.raster_height THEN None
    ELSE SomeValue(get_value(self, (y * self.raster_width + x) * self.num_samples + sample))

\* GeoTiff::get_value_at_pixel
get_value_at_pixel(self, x, y, sample) ==
    IF x >= self.raster_width \/ y >= self.raster_height THEN None
    ELSE IF sample >= self.num_samples THEN Panic
    ELSE SomeValue(get_value(self, (y * self.raster_width + x) * self.num_samples + sample))

\* geo_types::Rect::new
RectNew(c1, c2) ==
    [min |-> Coord(IF FLt(c1.x, c2.x) THEN c1.x ELSE c2.x,
                   IF FLt(c1.y, c2.y) THEN c1.y ELSE c2.y),
     max |-> Coord(IF FLt(c1.x, c2.x) THEN c2.x ELSE c1.x,
                   IF FLt(c1.y, c2.y) THEN c2.y ELSE c1.y)]

\* Rect::new over the two corners as mapped, or the panic of the mapping.
RectOf(c1, c2) == IF c1 = Panic \/ c2 = Panic THEN Panic ELSE RectNew(c1, c2)

\* let lower = ..
LowerCorner(offset) == Coord(offset, offset)

\* let upper = ..
UpperCorner(self, offset) ==
    Coord(FAdd(FromInt(self.raster_width), offset), FAdd(FromInt(self.raster_height), offset))

\* model_extent over the corners lower and upper.
ExtentOf(self_transform, lower, upper) ==
    IF self_transform = None THEN {RectNew(lower, upper)}
    ELSE {RectOf(c1, c2) : c1 \in transform_to_model(self_transform.v, lower),
                           c2 \in transform_to_model(self_transform.v, upper)}

\* GeoTiff::model_extent: the values the call can return.
model_extent(self, self_transform) ==
    ExtentOf(self_transform, LowerCorner(raster_offset(self.raster_type)),
             UpperCorner(self, raster_offset(self.raster_type)))

----------------------------------------------------------------------------
(* delaunator::triangulate                                                 *)

\* Point sets, with integer coordinates, and for each the triangulation
\* delaunator returns: triangles as triples of point indices and the hull,
\* both counter-clockwise in delaunator's convention (y axis downwards).
\* "square" is the example of delaunator's documentation; for collinear
\* input ("two", "collinear") there is no triangle and the hull lists the
\* points along their line; of equal points ("twins") the hull may list
\* one or all.
Catalogue ==
    << [name |-> "two", points |-> << <<1, 2>>, <<5, 1>> >>,
        triangles |-> << >>, hull |-> <<0, 1>>],
       [name |-> "three", points |-> << <<1, 2>>, <<5, 1>>, <<2, 6>> >>,
        triangles |-> <<0, 2, 1>>, hull |-> <<0, 2, 1>>],
       [name |-> "square", points |-> << <<0, 0>>, <<1, 0>>, <<1, 1>>, <<0, 1>> >>,
        triangles |-> <<0, 2, 1, 0, 3, 2>>, hull |-> <<0, 3, 2, 1>>],
       [name |-> "quad", points |-> << <<0, 0>>, <<5, 0>>, <<6, 4>>, <<0, 3>> >>,
        triangles |-> <<0, 3, 1, 1, 3, 2>>, hull |-> <<0, 3, 2, 1>>],
       [name |-> "centre", points |-> << <<0, 0>>, <<6, 0>>, <<0, 6>>, <<2, 2>> >>,
        triangles |-> <<0, 3, 1, 0, 2, 3, 1, 3, 2>>, hull |-> <<0, 2, 1>>],
       [name |-> "nested", points |-> << <<0, 0>>, <<8, 0>>, <<4, 8>>, <<3, 2>>, <<5, 3>>, <<4, 5>> >>,
        triangles |-> <<0, 3, 1, 0, 2, 5, 0, 5, 3, 1, 4, 2, 1, 3, 4, 2, 4, 5, 3, 5, 4>>,
        hull |-> <<0, 2, 1>>],
       [name |-> "collinear", points |-> << <<0, 0>>, <<5, 5>>, <<3, 3>> >>,
        triangles |-> << >>, hull |-> <<0, 2, 1>>],
       [name |-> "twins", points |-> << <<1, 2>>, <<1, 2>> >>,
        triangles |-> << >>, hull |-> <<0>>],
       [name |-> "twins listed", points |-> << <<1, 2>>, <<1, 2>> >>,
        triangles |-> << >>, hull |-> <<0, 1>>] >>

\* Twice the signed area of the triangle a, b, c (positive: counter-clockwise
\* with the y axis upwards).
Orient(a, b, c) == (b[1] - a[1]) * (c[2] - a[2]) - (b[2] - a[2]) * (c[1] - a[1])

\* Positive when d is inside the circle through a, b, c given counter-clockwise
\* (y axis upwards), negative when outside.
InCircle(a, b, c, d) ==
    LET ax == a[1] - d[1]
        ay == a[2] - d[2]
        bx == b[1] - d[1]
        by == b[2] - d[2]
        cx == c[1] - d[1]
        cy == c[2] - d[2]
        a2 == ax * ax + ay * ay
        b2 == bx * bx + by * by
        c2 == cx * cx + cy * cy
    IN  ax * (by * c2 - b2 * cy) - ay * (bx * c2 - b2 * cx) + a2 * (bx * cy - by * cx)

\* The directed edges of the triangles.
TriangleEdges(triangles) ==
    UNION {{ <<triangles[3 * t - 2], triangles[3 * t - 1]>>,
             <<triangles[3 * t - 1], triangles[3 * t]>>,
             <<triangles[3 * t], triangles[3 * t - 2]>> } : t \in 1..(Len(triangles) \div 3)}

\* The directed edges of the hull cycle.
HullEdges(hull) == {<<hull[i], hull[(i % Len(hull)) + 1]>> : i \in 1..Len(hull)}

\* What delaunator documents of its result: triangles directed
\* counter-clockwise (y downwards), none with a point inside its circumcircle,
\* and the hull the cycle of the edges that belong to one triangle only.
DelaunatorContract(c) ==
    LET pt(i) == c.points[i + 1]
        n == Len(c.triangles) \div 3
        tri(t) == <<pt(c.triangles[3 * t - 2]), pt(c.triangles[3 * t - 1]), pt(c.triangles[3 * t])>>
        edges == TriangleEdges(c.triangles)
    IN  /\ Len(c.triangles) = 3 * n
        /\ \A t \in 1..n :
              /\ Orient(tri(t)[1], tri(t)[2], tri(t)[3]) < 0
              /\ \A i \in 1..Len(c.points) :
                    InCircle(tri(t)[1], tri(t)[3], tri(t)[2], c.points[i]) <= 0
        /\ IF n = 0 THEN \A i \in 1..Len(c.points) : \E j \in 1..Len(c.hull) : pt(c.hull[j]) = c.points[i]
           ELSE HullEdges(c.hull) = {e \in edges : <<e[2], e[1]>> \notin edges}
        /\ \A i, j \in 1..Len(c.hull) : c.hull[i] = c.hull[j] => i = j

\* The triple starting r places later: delaunator fixes no first vertex.
RotateTriangles(triangles, r) ==
    [i \in 1..Len(triangles) |-> triangles[3 * ((i - 1) \div 3) + ((i - 1 + r) % 3) + 1]]

\* The results delaunator::triangulate can return for the points.
Triangulate(points) ==
    {[triangles |-> RotateTriangles(Catalogue[c].triangles, r), hull |-> Catalogue[c].hull] :
        <<c, r>> \in {cr \in (1..Len(Catalogue)) \X (0..2) :
            /\ DelaunatorContract(Catalogue[cr[1]])
            /\ points = [i \in 1..Len(Catalogue[cr[1]].points) |->
                            Coord(FromInt(Catalogue[cr[1]].points[i][1]),
                                  FromInt(Catalogue[cr[1]].points[i][2]))]}}

NoTriangulation == [triangles |-> << >>, hull |-> << >>]

\* The triangulations from_tag_data can meet for the tie points given.
Triangulations(tie_points_tag) ==
    IF tie_points_tag.tag = "Some" /\ Len(tie_points_tag.v) >= 12 /\ Len(tie_points_tag.v) % 6 = 0
    THEN Triangulate(ChunkPoints(tie_points_tag.v, 0))
    ELSE {NoTriangulation}

----------------------------------------------------------------------------
(* The program: the tags of an image, the transform built from them, and   *)
(* the evaluations of the transform                                        *)

VARIABLES
    pixel_scale_tag,        \* ModelPixelScaleTag: None, Some(values) or Unreadable
    tie_points_tag,         \* ModelTiepointTag
    transformation_tag,     \* ModelTransformationTag
    tie_points_feature,     \* whether the build has the tie-points feature
    pc,                     \* "input", "ready", "failed", "answered", "chained", "panicked"
    entry,                  \* the constructor called: "from_tag_data" or "coordinate_transform"
    returned,               \* what the constructor returned
    transform,              \* the CoordinateTransform held afterwards: None or Some
    triangulation,          \* what delaunator returned to from_tie_points
    calls,                  \* the evaluations since the last return: [op, coord, out]
    geotiff,                \* the image a GeoTiff is read from: None, or Some of its
                            \* raster_width, raster_height, num_samples and raster_type
    unit                    \* the arguments of a function called on its own: None or Some

vars == <<pixel_scale_tag, tie_points_tag, transformation_tag, tie_points_feature,
          pc, entry, returned, transform, triangulation, calls, geotiff, unit>>

tags == <<pixel_scale_tag, tie_points_tag, transformation_tag, tie_points_feature, geotiff, unit>>

NotCalled == [tag |-> "NotCalled"]

\* The coordinates evaluated, in raster and in model space alike.
QueryValues == {FromInt(-6), FromInt(-1), FromInt(0), Scaled(1, -1), FromInt(1),
                FromInt(3), FromInt(5), FromInt(9)}

QueryPoints == {Coord(x, y) : x \in QueryValues, y \in QueryValues}

Floats(ints) == [i \in 1..Len(ints) |-> FromInt(ints[i])]

Prefix(seq, n) == SubSeq(seq, 1, n)

Started ==
    /\ geotiff = None
    /\ unit = None
    /\ pc = "input"
    /\ entry = "none"
    /\ returned = NotCalled
    /\ transform = None
    /\ triangulation = NoTriangulation
    /\ calls = << >>

\* Tag values of every length the validation distinguishes.
PixelScaleValues == Floats(<<2, 3, 7, 1>>)

PixelScaleLengths == {0, 2, 3, 4}

\* The model point of the raster point (x, y) under the k-th correspondence:
\* 1 flips the y axis (north-up image), 2 keeps the orientation.
ModelPoint(k, x, y) == IF k = 1 THEN <<2 * x, 8 - 2 * y>> ELSE <<x + 1, y + 2>>

ModelMaps == {1, 2}

\* The tie point groups [raster x, y, z, model x, y, z] of a point set.
TieGroup(k, xy) ==
    <<xy[1], xy[2], 9, ModelPoint(k, xy[1], xy[2])[1], ModelPoint(k, xy[1], xy[2])[2], 8>>

RECURSIVE TieValues(_, _, _)
TieValues(k, points, n) ==
    IF n = 0 THEN << >> ELSE TieValues(k, points, n - 1) \o TieGroup(k, points[n])

TiePointsOf(k, points) == Floats(TieValues(k, points, Len(points)))

TiePointLengths == {0, 5, 6, 7, 12, 18}

TiePointValues == TiePointsOf(1, Catalogue[2].points) \o Floats(<<4>>)

MatrixValues == Floats(<<2, 0, 0, 1,  0, -2, 0, 8,  0, 0, 1, 0,  0, 0, 0, 1,  0>>)

MatrixLengths == {15, 16, 17}

\* Every combination of absent, unreadable and present tags of each length.
Init ==
    /\ pixel_scale_tag \in {None, Unreadable}
            \cup {Some(Prefix(PixelScaleValues, n)) : n \in PixelScaleLengths}
    /\ tie_points_tag \in {None, Unreadable}
            \cup {Some(Prefix(TiePointValues, n)) : n \in TiePointLengths}
    /\ transformation_tag \in {None, Unreadable}
            \cup {Some(Prefix(MatrixValues, n)) : n \in MatrixLengths}
    /\ tie_points_feature \in BOOLEAN
    /\ Started

\* The smallest float above DET_EPSILON's predecessor: the float just below it.
Pred(a) == IF a.m = Pow2(MantBits - 1)
           THEN [a EXCEPT !.m = Pow2(MantBits) - 1, !.e = a.e - 1]
           ELSE [a EXCEPT !.m = a.m - 1]

\* Transformation matrices: the linear block m[0], m[1], m[4], m[5], the
\* translation m[3], m[7], and the remaining entries.
Matrix(a, b, d, e, c, f, rest) ==
    <<a, b, rest, c,  d, e, rest, f,  rest, rest, rest, rest,  rest, rest, rest, rest>>

MatrixA == {FromInt(0), FromInt(1), FromInt(2), FromInt(3), DET_EPSILON, Pred(DET_EPSILON)}

MatrixB == {FromInt(0), FromInt(1)}

MatrixD == {FromInt(0), FromInt(2)}

MatrixE == {FromInt(1), FromInt(3)}

MatrixTranslation == {<<FromInt(0), FromInt(0)>>, <<FromInt(3), FromInt(-2)>>}

MatrixRest == {FromInt(0), FromInt(5)}

\* A transformation matrix alone.
InitAffine ==
    /\ pixel_scale_tag = None
    /\ tie_points_tag = None
    /\ transformation_tag \in
          {Some(Matrix(a, b, d, e, cf[1], cf[2], rest)) :
              a \in MatrixA, b \in MatrixB, d \in MatrixD, e \in MatrixE,
              cf \in MatrixTranslation, rest \in MatrixRest}
    /\ tie_points_feature = TRUE
    /\ Started

\* Two or more tie points alone, in a build with the tie-points feature.
InitMesh ==
    /\ pixel_scale_tag = None
    /\ tie_points_tag \in {Some(TiePointsOf(k, Catalogue[c].points)) :
                              k \in ModelMaps, c \in 1..Len(Catalogue)}
    /\ transformation_tag = None
    /\ tie_points_feature = TRUE
    /\ Started

\* A tie point group and the scales of the two axes: positive, negative and
\* zero scales, and the z values the construction leaves out.
ScaleTieGroups == {<<0, 0, 0, 100, 200, 0>>, <<1, 2, 9, 2, 4, 8>>}

ScaleXs == {FromInt(2), FromInt(3), FromInt(0)}

ScaleYs == {FromInt(2), FromInt(-3)}

ScaleZs == {FromInt(0), FromInt(7)}

\* One tie point with a pixel scale.
InitScale ==
    /\ pixel_scale_tag \in {Some(<<sx, sy, sz>>) : sx \in ScaleXs, sy \in ScaleYs, sz \in ScaleZs}
    /\ tie_points_tag \in {Some(Floats(g)) : g \in ScaleTieGroups}
    /\ transformation_tag = None
    /\ tie_points_feature \in BOOLEAN
    /\ Started

\* The images: width and height, samples per pixel and raster type.
RasterSizes == {<<3, 5>>, <<1, 3>>}

SampleCounts == {1, 2}

RasterTypes == {None, Some(RasterPixelIsArea), Some(RasterPixelIsPoint)}

\* A matrix that shears the x axis along y: x' = x - y, y' = y.
ShearMatrix == Floats(<<1, -1, 0, 0,  0, 1, 0, 0,  0, 0, 1, 0,  0, 0, 0, 1>>)

\* The tags of the images: none, a pixel scale alone, one tie point with a
\* pixel scale, a north-up and a shearing matrix, three and four tie points.
ImageTags ==
    { <<None, None, None>>,
      <<Some(Prefix(PixelScaleValues, 3)), None, None>>,
      <<Some(Prefix(PixelScaleValues, 3)), Some(Prefix(TiePointValues, 6)), None>>,
      <<None, None, Some(Prefix(MatrixValues, 16))>>,
      <<None, None, Some(ShearMatrix)>>,
      <<None, Some(TiePointsOf(1, Catalogue[2].points)), None>>,
      <<None, Some(TiePointsOf(1, Catalogue[4].points)), None>> }

\* An image with its tags, before GeoTiff::read.
InitGeoTiff ==
    /\ \E t \in ImageTags :
          /\ pixel_scale_tag = t[1]
          /\ tie_points_tag = t[2]
          /\ transformation_tag = t[3]
    /\ tie_points_feature = TRUE
    /\ geotiff \in {Some([raster_width |-> wh[1], raster_height |-> wh[2],
                           num_samples |-> n, raster_type |-> rt]) :
                         wh \in RasterSizes, n \in SampleCounts, rt \in RasterTypes}
    /\ unit = None
    /\ pc = "input"
    /\ entry = "none"
    /\ returned = NotCalled
    /\ transform = None
    /\ triangulation = NoTriangulation
    /\ calls = << >>

AfterConstruction(result) ==
    IF result.tag = "Panic" THEN "panicked"
    ELSE IF result.tag = "Err" THEN "failed"
    ELSE "ready"

\* A call of CoordinateTransform::from_tag_data with the tags' values.
FromTagData ==
    /\ pc = "input"
    /\ Unreadable \notin {pixel_scale_tag, tie_points_tag, transformation_tag}
    /\ \E tri \in Triangulations(tie_points_tag) :
          \E result \in {from_tag_data(pixel_scale_tag, tie_points_tag, transformation_tag,
                                       tie_points_feature, tri)} :
              /\ entry' = "from_tag_data"
              /\ returned' = result
              /\ transform' = IF result.tag = "Ok" THEN Some(result.v) ELSE None
              /\ triangulation' = IF result.tag = "Ok" /\ result.v.variant = "TiePoints"
                                  THEN tri ELSE NoTriangulation
              /\ pc' = AfterConstruction(result)
    /\ UNCHANGED <<tags, calls>>

\* A call of DecoderExt::coordinate_transform on the image.
ReadCoordinateTransform ==
    /\ pc = "input"
    /\ \E tri \in Triangulations(tie_points_tag) :
          \E result \in {coordinate_transform(pixel_scale_tag, tie_points_tag,
                                              transformation_tag, tie_points_feature, tri)} :
              /\ entry' = "coordinate_transform"
              /\ returned' = result
              /\ transform' = IF result.tag = "Ok" THEN result.v ELSE None
              /\ triangulation' = IF result.tag = "Ok" /\ result.v # None
                                     /\ result.v.v.variant = "TiePoints"
                                  THEN tri ELSE NoTriangulation
              /\ pc' = AfterConstruction(result)
    /\ UNCHANGED <<tags, calls>>

\* The point of the pixel (10, 10), evaluated in the scale and offset mode.
PixelPoints == {Coord(FromInt(10), FromInt(10))}

PointsFor(variant) ==
    IF variant = "TiePointAndPixelScale" THEN QueryPoints \cup PixelPoints ELSE QueryPoints

\* The coordinates an evaluation is given: any, or the result of the
\* evaluation before it.
Arguments == IF pc = "ready" THEN PointsFor(transform.v.variant) ELSE {calls[Len(calls)].out}

Evaluated(op, coord, out) ==
    /\ calls' = Append(calls, [op |-> op, coord |-> coord, out |-> out])
    /\ pc' = IF out = Panic THEN "panicked" ELSE IF pc = "ready" THEN "answered" ELSE "chained"
    /\ UNCHANGED <<tags, entry, returned, transform, triangulation>>

\* A call of transform_to_model.
TransformToModel ==
    /\ pc \in {"ready", "answered"}
    /\ transform # None
    /\ \E coord \in Arguments :
          \E out \in transform_to_model(transform.v, coord) :
              Evaluated("transform_to_model", coord, out)

\* A call of transform_to_raster.
TransformToRaster ==
    /\ pc \in {"ready", "answered"}
    /\ transform # None
    /\ \E coord \in Arguments :
          \E out \in transform_to_raster(transform.v, coord) :
              Evaluated("transform_to_raster", coord, out)

\* The caller is done with the results.
Return ==
    /\ pc \in {"answered", "chained"}
    /\ pc' = "ready"
    /\ calls' = << >>
    /\ UNCHANGED <<tags, entry, returned, transform, triangulation>>

\* GeoTiff::read of the image: the decoder's coordinate_transform, and the
\* dimensions, samples per pixel and raster type of the image.
GeoTiffRead ==
    /\ geotiff # None
    /\ ReadCoordinateTransform

\* The call has returned out, or panicked.
Called(call, out) ==
    /\ calls' = Append(calls, call)
    /\ pc' = IF out = Panic THEN "panicked" ELSE "answered"
    /\ UNCHANGED <<tags, entry, returned, transform, triangulation>>

\* A call of GeoTiff::get_value_at, the sample within or just beyond the
\* samples of the image.
GetValueAt ==
    /\ pc = "ready"
    /\ geotiff # None
    /\ \E coord \in QueryPoints, sample \in 0..geotiff.v.num_samples :
          \E out \in get_value_at(geotiff.v, transform, coord, sample) :
              Called([op |-> "get_value_at", coord |-> coord, sample |-> sample, out |-> out], out)

\* A call of GeoTiff::model_extent.
ModelExtent ==
    /\ pc = "ready"
    /\ geotiff # None
    /\ \E out \in model_extent(geotiff.v, transform) :
          Called([op |-> "model_extent", out |-> out], out)

Next ==
    \/ FromTagData
    \/ ReadCoordinateTransform
    \/ TransformToModel
    \/ TransformToRaster
    \/ Return

\* Every combination of tags.
Spec == Init /\ [][Next]_vars

\* Transformation matrices.
SpecAffine == InitAffine /\ [][Next]_vars

\* Tie point sets.
SpecMesh == InitMesh /\ [][Next]_vars

\* One tie point and pixel scales.
SpecScale == InitScale /\ [][Next]_vars

\* A call of GeoTiff::get_value_at_pixel, the pixel and the sample within or
\* just beyond the image.
GetValueAtPixel ==
    /\ pc = "ready"
    /\ geotiff # None
    /\ \E x \in 0..geotiff.v.raster_width, y \in 0..geotiff.v.raster_height, sample \in 0..geotiff.v.num_samples :
          \E out \in {get_value_at_pixel(geotiff.v, x, y, sample)} :
              Called([op |-> "get_value_at_pixel", x |-> x, y |-> y, sample |-> sample, out |-> out], out)

NextGeoTiff ==
    \/ GeoTiffRead
    \/ GetValueAt
    \/ GetValueAtPixel
    \/ ModelExtent
    \/ Return

\* Images read as a GeoTiff.
SpecGeoTiff == InitGeoTiff /\ [][NextGeoTiff]_vars

\* u16::MAX
U16_MAX == 65535

\* a + b of two u16: the sum, or beyond u16::MAX the panic of a build with
\* overflow checks and the wrapped sum of a build without them.
U16Add(a, b) ==
    IF a + b > U16_MAX THEN {Panic, Ok((a + b) % (U16_MAX + 1))} ELSE {Ok(a + b)}

\* a - b of two u16: the difference, or below zero the panic of a build with
\* overflow checks and the wrapped difference of a build without them.
U16Sub(a, b) ==
    IF a < b THEN {Panic, Ok(a - b + U16_MAX + 1)} ELSE {Ok(a - b)}

\* offset + count - 1 in u16, evaluated left to right.
EndOffsets(offset, count) ==
    UNION {IF sum.tag = "Panic" THEN {Panic} ELSE U16Sub(sum.v, 1) : sum \in U16Add(offset, count)}

\* The key is quoted in the message of the code.
WrongLocationMsg(key_tag) ==
    "Key " \o key_tag \o " did not have the expected ASCII value type."

StartOffsetMsg(len, offset) ==
    "Start offset out of bounds: the length is " \o ToString(len) \o " but the offset is " \o ToString(offset) \o "."

EndOffsetMsg(len, offset) ==
    "End offset out of bounds: the length is " \o ToString(len) \o " but the offset is " \o ToString(offset) \o "."

\* data[start..end] of a str of one-byte characters: a panic when start
\* exceeds end.
StrSlice(data, start, end) ==
    IF start > end THEN Panic ELSE Ok(SubSeq(data, start + 1, end))

\* get_string from the check of the end offset on, for one value of end.
StringUpTo(data, offset, end) ==
    IF end.tag = "Panic" THEN Panic
    ELSE IF end.v >= Len(data) THEN FormatError(EndOffsetMsg(Len(data), offset))
    ELSE StrSlice(data, offset, end.v)

\* GeoKeyDirectory::get_string: the outcomes over the builds.
get_string(data, key_tag, location_tag, count, offset) ==
    IF location_tag # Some("GeoAsciiParamsTag") THEN {FormatError(WrongLocationMsg(key_tag))}
    ELSE IF offset >= Len(data) THEN {FormatError(StartOffsetMsg(Len(data), offset))}
    ELSE {StringUpTo(data, offset, end) : end \in EndOffsets(offset, count)}

\* Hull cycles and sequences of point indices, of every length up to
\* MaxHullLen and MaxSeqLen: empty hulls, hulls shorter than the sequence,
\* repeated indices.
MaxIndex == 2

MaxHullLen == 3

MaxSeqLen == 2

Slices(n) == UNION {[1..k -> 0..MaxIndex] : k \in 0..n}

\* No tags and no image: a function called on its own.
NoImage ==
    /\ pixel_scale_tag = None
    /\ tie_points_tag = None
    /\ transformation_tag = None
    /\ tie_points_feature = TRUE
    /\ geotiff = None
    /\ pc = "input"
    /\ entry = "none"
    /\ returned = NotCalled
    /\ transform = None
    /\ triangulation = NoTriangulation
    /\ calls = << >>

\* A hull and a sequence to look up in it.
InitHull ==
    /\ unit \in {Some([hull |-> hull, seq |-> seq]) : hull \in Slices(MaxHullLen), seq \in Slices(MaxSeqLen)}
    /\ NoImage

\* A call of HullExt::contains_sequence.
ContainsSequence ==
    /\ pc \in {"input", "ready"}
    /\ unit # None
    /\ \E out \in {contains_sequence(unit.v.hull, unit.v.seq)} :
          Called([op |-> "contains_sequence", out |-> out], Ok(out))

NextHull == ContainsSequence \/ Return

\* The points of the indices 0..MaxIndex, no three of them collinear.
IndexedPoints == [p \in 1..(MaxIndex + 1) |-> Coord(FromInt(p), FromInt(p * p))]

\* The hull cycles: no point index listed twice.
Cycles == {hull \in Slices(MaxHullLen) : \A i, j \in 1..Len(hull) : hull[i] = hull[j] => i = j}

\* A hull cycle and one triangle of point indices.
InitFaces ==
    /\ unit \in {Some([hull |-> hull, chunk |-> chunk]) : hull \in Cycles, chunk \in [1..3 -> 0..MaxIndex]}
    /\ NoImage

\* A call of build_faces with the triangulation of the one triangle.
BuildFaces ==
    /\ pc \in {"input", "ready"}
    /\ unit # None
    /\ \E out \in {build_faces(IndexedPoints, [triangles |-> unit.v.chunk, hull |-> unit.v.hull])} :
          Called([op |-> "build_faces", out |-> out], out)

NextFaces == BuildFaces \/ Return

\* build_faces on its own.
SpecFaces == InitFaces /\ [][NextFaces]_vars

\* contains_sequence on its own.
SpecHull == InitHull /\ [][NextHull]_vars

\* The ASCII parameters: strings of up to MaxDataLen characters, the
\* terminator of a parameter among them.
MaxDataLen == 3

AsciiParams == UNION {[1..k -> {"a", "|"}] : k \in 0..MaxDataLen}

\* Offsets and counts of a key entry: the small ones and the ones next to
\* u16::MAX.
MaxOffset == 3

KeyEntryValues == (0..MaxOffset) \cup ((U16_MAX - 1)..U16_MAX)

\* The location of a key entry: in the directory itself, in the ASCII
\* parameters, in the double parameters.
Locations == {None, Some("GeoAsciiParamsTag"), Some("GeoDoubleParamsTag")}

\* The ASCII parameters and a key entry of a citation.
InitString ==
    /\ unit \in {Some([data |-> data, key_tag |-> "Citation", location_tag |-> location_tag, count |-> count, offset |-> offset]) :
                   data \in AsciiParams, location_tag \in Locations, count \in KeyEntryValues, offset \in KeyEntryValues}
    /\ NoImage

\* A call of GeoKeyDirectory::get_string.
GetString ==
    /\ pc \in {"input", "ready"}
    /\ unit # None
    /\ \E out \in get_string(unit.v.data, unit.v.key_tag, unit.v.location_tag, unit.v.count, unit.v.offset) :
          Called([op |-> "get_string", out |-> out], out)

NextString == GetString \/ Return

\* get_string on its own.
SpecString == InitString /\ [][NextString]_vars

----------------------------------------------------------------------------
(* Properties                                                              *)

\* from_tag_data was called and has returned.
Constructed == entry = "from_tag_data"

\* The decoder's coordinate_transform was called and has returned.
Read == entry = "coordinate_transform"

\* A tag given with a number of values that passes the validation.
ValidPixelScale == pixel_scale_tag.tag = "Some" /\ Len(pixel_scale_tag.v) = 3

ValidTiePoints ==
    tie_points_tag.tag = "Some" /\ Len(tie_points_tag.v) > 0 /\ Len(tie_points_tag.v) % 6 = 0

ValidMatrix == transformation_tag.tag = "Some" /\ Len(transformation_tag.v) = 16

\* The tags are absent or of a valid number of values.
ValidTags ==
    /\ pixel_scale_tag = None \/ ValidPixelScale
    /\ tie_points_tag = None \/ ValidTiePoints
    /\ transformation_tag = None \/ ValidMatrix

\* The transform held is the triangulated one.
Built == transform # None /\ transform.v.variant = "TiePoints"

\* The faces of the mesh whose contains holds for P.
Holders(mesh, P) == {i \in 1..Len(mesh) : contains(mesh[i], P)}

\* a == b on both coordinates.
CoordEq(a, b) == a # Panic /\ b # Panic /\ FEq(a.x, b.x) /\ FEq(a.y, b.y)

\* A finite float with an integer value of magnitude at most 16.
SmallInteger(a) ==
    /\ a.k = "fin"
    /\ a.m = 0 \/ a.e >= 0 \/ a.m % Pow2(Min(-a.e, 30)) = 0
    /\ FLe(FAbs(a), FromInt(16))

\* C1: every evaluation of a transform that from_tag_data returned
\* successfully returns a coordinate: transform_to_model and
\* transform_to_raster never fail, the unwrap of the point location never
\* fires, for any set of two or more tie points and any finite point.
C1_EvaluationNeverFails ==
    Constructed /\ returned.tag = "Ok" =>
        /\ pc # "panicked"
        /\ \A i \in 1..Len(calls) : calls[i].out # Panic

\* C2: in each mesh that build_faces built, the raster mesh and the model
\* mesh alike, exactly one face contains any given point of the plane.
C2_ExactlyOneFaceContains ==
    Built =>
        \A P \in QueryPoints :
            /\ Cardinality(Holders(transform.v.raster_mesh, P)) = 1
            /\ Cardinality(Holders(transform.v.model_mesh, P)) = 1

\* The messages that name a tag given together with the matrix.
ExcludedTagMsgs ==
    {PixelScaleExclusiveMsg : x \in {pixel_scale_tag} \ {None}}
        \cup {TiePointExclusiveMsg : x \in {tie_points_tag} \ {None}}

\* C3: from_tag_data given a transformation matrix of 16 values together with
\* a pixel scale or tie points of valid length returns a format error that
\* names a tag that must not be specified, and constructs no transform; given
\* the matrix alone it returns what the affine construction returns.
C3_MatrixIsExclusive ==
    Constructed /\ ValidMatrix /\ ValidTags =>
        IF pixel_scale_tag # None \/ tie_points_tag # None
        THEN /\ returned.tag = "Err"
             /\ returned.msg \in ExcludedTagMsgs
             /\ transform = None
        ELSE /\ returned = from_transformation_matrix(transformation_tag.v)
             /\ returned.tag = "Ok" => returned.v.variant = "AffineTransform"

C3_Witness ==
    /\ Constructed /\ ValidMatrix /\ pixel_scale_tag = None /\ ValidTiePoints
    /\ returned = FormatError(TiePointExclusiveMsg)

\* C4: from_tag_data given neither a transformation matrix nor tie points,
\* with or without a valid pixel scale, returns the format error that the
\* tie point tag must be present when the transformation tag is missing, and
\* constructs no transform.
C4_TiePointsRequired ==
    Constructed /\ transformation_tag = None /\ tie_points_tag = None
                /\ (pixel_scale_tag = None \/ ValidPixelScale) =>
        /\ returned = FormatError(TiePointMissingMsg)
        /\ transform = None

C4_Witness ==
    /\ Constructed /\ transformation_tag = None /\ tie_points_tag = None /\ ValidPixelScale
    /\ returned = FormatError(TiePointMissingMsg)

\* C5: reading the coordinate transform of an image with none of the three
\* tags yields Ok(None), not an error; with at least one of the tags present
\* it yields Some(transform) or an error, never Ok(None).
C5_NoTagsNoTransform ==
    Read =>
        IF pixel_scale_tag = None /\ tie_points_tag = None /\ transformation_tag = None
        THEN returned = Ok(None)
        ELSE \/ returned.tag = "Err"
             \/ returned.tag = "Ok" /\ returned.v.tag = "Some"

C5_Witness ==
    /\ Read
    /\ pixel_scale_tag = None /\ tie_points_tag = None /\ transformation_tag = None
    /\ returned = Ok(None)

\* C6: from_tag_data given no transformation matrix and tie points of one
\* group (6 values) returns a format error when the pixel scale is absent and,
\* when the pixel scale (3 values) is present, the tie-point-and-pixel-scale
\* transform with raster point (tie[0], tie[1]), model point (tie[3], tie[4])
\* and pixel scale (scale[0], scale[1]); no z component enters the result.
C6_OneTiePointNeedsPixelScale ==
    Constructed /\ transformation_tag = None
                /\ tie_points_tag.tag = "Some" /\ Len(tie_points_tag.v) = 6 =>
        /\ pixel_scale_tag = None =>
              returned = FormatError(PixelScaleMissingMsg) /\ transform = None
        /\ ValidPixelScale =>
              returned = Ok([variant |-> "TiePointAndPixelScale",
                             raster_point |-> Coord(tie_points_tag.v[1], tie_points_tag.v[2]),
                             model_point |-> Coord(tie_points_tag.v[4], tie_points_tag.v[5]),
                             pixel_scale |-> Coord(pixel_scale_tag.v[1], pixel_scale_tag.v[2])])

C6_Witness ==
    /\ Constructed /\ transformation_tag = None
    /\ tie_points_tag.tag = "Some" /\ Len(tie_points_tag.v) = 6
    /\ ValidPixelScale
    /\ returned.tag = "Ok"
    /\ returned.v.model_point # Coord(tie_points_tag.v[3], tie_points_tag.v[4])

\* C7: from_tag_data given no transformation matrix and tie points of more
\* than one group, with or without a pixel scale, returns the triangulated
\* transform in a build with the tie-points feature and the "not supported"
\* format error in a build without it; never another variant.
C7_SeveralTiePointsTriangulate ==
    Constructed /\ transformation_tag = None /\ ValidTiePoints /\ Len(tie_points_tag.v) > 6
                /\ (pixel_scale_tag = None \/ ValidPixelScale) =>
        IF tie_points_feature
        THEN /\ returned = from_tie_points(tie_points_tag.v, triangulation)
             /\ returned.tag = "Ok" /\ returned.v.variant = "TiePoints"
        ELSE returned = FormatError(NotSupportedMsg) /\ transform = None

C7_Witness ==
    /\ Constructed /\ transformation_tag = None /\ ValidTiePoints /\ Len(tie_points_tag.v) > 6
    /\ ValidPixelScale /\ ~tie_points_feature
    /\ returned = FormatError(NotSupportedMsg)

\* The format errors of the validation of the numbers of values.
LengthMsgs == {PixelScaleLenMsg, TiePointEmptyMsg, TiePointLenMsg, TransformationLenMsg}

\* C8: from_tag_data returns a format error and constructs nothing when a
\* pixel scale is given with other than 3 values, a transformation matrix
\* with other than 16 values, or tie points with 0 values or a number of
\* values not divisible by 6.
C8_WrongLengthsRejected ==
    Constructed /\ ~ValidTags =>
        /\ returned.tag = "Err"
        /\ returned.msg \in LengthMsgs
        /\ transform = None

C8_Witness ==
    /\ Constructed
    /\ pixel_scale_tag.tag = "Some" /\ Len(pixel_scale_tag.v) = 2
    /\ tie_points_tag.tag = "Some" /\ Len(tie_points_tag.v) = 6
    /\ transformation_tag = None
    /\ returned = FormatError(PixelScaleLenMsg)

\* m[0] * m[5] - m[1] * m[4] over the values of the matrix tag.
LinearDeterminant ==
    FSub(FMul(transformation_tag.v[1], transformation_tag.v[6]),
         FMul(transformation_tag.v[2], transformation_tag.v[5]))

\* C9: from_transformation_matrix fails, with the "not invertible" format
\* error, exactly when |m[0] * m[5] - m[1] * m[4]| < 1e-15, whatever the
\* other entries of the matrix; otherwise it succeeds.
C9_NotInvertibleIffSmallDeterminant ==
    entry # "none" /\ pixel_scale_tag = None /\ tie_points_tag = None /\ ValidMatrix =>
        /\ returned = FormatError(NotInvertibleMsg)
              <=> FLt(FAbs(LinearDeterminant), DET_EPSILON)
        /\ returned.tag \in {"Ok", "Err"}
        /\ IsZero(LinearDeterminant) => returned.tag = "Err"

C9_Witness ==
    /\ Constructed /\ ValidMatrix
    /\ returned = FormatError(NotInvertibleMsg)
    /\ ~IsZero(LinearDeterminant)
    /\ ~IsZero(transformation_tag.v[4])

\* The evaluations are a round trip: one direction, then the other on its result.
RoundTrip ==
    /\ transform # None /\ transform.v.variant = "AffineTransform"
    /\ pc = "chained"
    /\ calls[1].op # calls[2].op

\* C10 as stated: for every accepted matrix the inverse coefficients are the
\* exact inverse, so that transform_to_raster(transform_to_model(P)) = P and
\* transform_to_model(transform_to_raster(P)) = P for every point P.
C10_RoundTripIsExact == RoundTrip => CoordEq(calls[2].out, calls[1].coord)

\* The determinant of the matrix given is 1 or -1, and its six coefficients
\* and P are integers of magnitude at most 16.
ExactCase ==
    /\ FEq(FAbs(LinearDeterminant), FromInt(1))
    /\ \A i \in {1, 2, 4, 5, 6, 8} : SmallInteger(transformation_tag.v[i])
    /\ SmallInteger(calls[1].coord.x) /\ SmallInteger(calls[1].coord.y)

\* C10, amended: for every accepted matrix the forward coefficients are
\* (m[0], m[1], m[3], m[4], m[5], m[7]) and each inverse coefficient is the
\* f64 quotient of the adjugate or translation term by the f64 determinant;
\* the round trips return P exactly when every operation is exact, as for a
\* determinant of 1 or -1 with coefficients and P integers of magnitude at
\* most 16.
C10_RoundTripExactWhenArithmeticIs ==
    /\ transform # None /\ transform.v.variant = "AffineTransform" =>
          /\ transform.v.transform =
                << transformation_tag.v[1], transformation_tag.v[2], transformation_tag.v[4],
                   transformation_tag.v[5], transformation_tag.v[6], transformation_tag.v[8] >>
          /\ transform.v.inverse_transform[1] = FDiv(transformation_tag.v[6], LinearDeterminant)
          /\ transform.v.inverse_transform[2] =
                FDiv(FNeg(transformation_tag.v[2]), LinearDeterminant)
          /\ transform.v.inverse_transform[4] =
                FDiv(FNeg(transformation_tag.v[5]), LinearDeterminant)
          /\ transform.v.inverse_transform[5] = FDiv(transformation_tag.v[1], LinearDeterminant)
    /\ RoundTrip /\ ExactCase => CoordEq(calls[2].out, calls[1].coord)

C10_Witness ==
    /\ RoundTrip /\ ExactCase
    /\ ~IsZero(transformation_tag.v[2]) /\ ~IsZero(transformation_tag.v[5])
    /\ ~IsZero(transformation_tag.v[4])
    /\ ~IsZero(calls[1].coord.x) /\ ~IsZero(calls[1].coord.y)
    /\ calls[1].op = "transform_to_model"
    /\ CoordEq(calls[2].out, calls[1].coord)

\* The transform held is the tie-point-and-pixel-scale one.
ScaleOffset == transform # None /\ transform.v.variant = "TiePointAndPixelScale"

\* The evaluations are transform_to_model and then transform_to_raster on its result.
ModelThenRaster ==
    /\ pc \in {"chained", "panicked"} /\ Len(calls) = 2
    /\ calls[1].op = "transform_to_model" /\ calls[2].op = "transform_to_raster"

\* C11: for every tie-point-and-pixel-scale transform that from_tag_data
\* constructs, whatever the values of the tie point and of the pixel scale,
\* and every point P, transform_to_raster(transform_to_model(P)) equals P.
C11_ScaleOffsetRoundTrip ==
    Constructed /\ ScaleOffset /\ ModelThenRaster => CoordEq(calls[2].out, calls[1].coord)

\* The tie point [0, 0, 0, 100, 200, 0] with the pixel scale [2, 2, 0].
ExampleTags ==
    /\ tie_points_tag = Some(Floats(<<0, 0, 0, 100, 200, 0>>))
    /\ pixel_scale_tag = Some(Floats(<<2, 2, 0>>))

\* The first evaluation is transform_to_model, and it returned.
ToModelFirst == Len(calls) >= 1 /\ calls[1].op = "transform_to_model" /\ calls[1].out # Panic

\* C12: for a tie-point-and-pixel-scale transform, transform_to_model(p) is
\* ((p.x - raster_anchor.x) * scale.x + model_anchor.x,
\*  (p.y - raster_anchor.y) * (-scale.y) + model_anchor.y) over the values of
\* the tags: the y scale is negated and the x scale is not, so that with
\* scale.y > 0 a raster y beyond the anchor's gives a model y below the
\* anchor's; with tie point [0, 0, 0, 100, 200, 0] and pixel scale [2, 2, 0],
\* transform_to_model((10, 10)) = (120, 180).
C12_ToModelFlipsY ==
    Constructed /\ ScaleOffset /\ ToModelFirst =>
        /\ calls[1].out.x =
              FAdd(FMul(FSub(calls[1].coord.x, tie_points_tag.v[1]), pixel_scale_tag.v[1]),
                   tie_points_tag.v[4])
        /\ calls[1].out.y =
              FAdd(FMul(FSub(calls[1].coord.y, tie_points_tag.v[2]), FNeg(pixel_scale_tag.v[2])),
                   tie_points_tag.v[5])
        /\ FGt(pixel_scale_tag.v[2], FromInt(0)) /\ FGt(calls[1].coord.y, tie_points_tag.v[2])
              => FLt(calls[1].out.y, tie_points_tag.v[5])
        /\ ExampleTags /\ calls[1].coord = Coord(FromInt(10), FromInt(10))
              => calls[1].out = Coord(FromInt(120), FromInt(180))

C12_Witness ==
    /\ Constructed /\ ScaleOffset /\ ToModelFirst /\ ExampleTags
    /\ calls[1].coord = Coord(FromInt(10), FromInt(10))
    /\ calls[1].out = Coord(FromInt(120), FromInt(180))

\* The first evaluation is transform_to_model at the raster point of tie point group g.
AtTiePoint(g) ==
    /\ Len(calls) >= 1 /\ calls[1].op = "transform_to_model"
    /\ calls[1].coord = ChunkPoints(tie_points_tag.v, 0)[g]

\* C13: transform_to_model evaluated at a raster tie point returns the model
\* tie point of the same group: the model anchor for a
\* tie-point-and-pixel-scale transform and, for a triangulated transform,
\* the model point of every group the transform was built from, whichever
\* containing face the point location selects.
C13_TiePointsMapToTiePoints ==
    Constructed /\ (ScaleOffset \/ Built) =>
        \A g \in 1..(Len(tie_points_tag.v) \div 6) :
            AtTiePoint(g) => CoordEq(calls[1].out, ChunkPoints(tie_points_tag.v, 3)[g])

\* The points of the triangle (chunk) in its vertex order.
Corners(points, chunk) == <<At(points, chunk[1]), At(points, chunk[2]), At(points, chunk[3])>>

\* The raster face rf and the model face mf are built from the triangle chunk:
\* the same vertices in the same order and the same kind of boundary over
\* the same vertices.
SameTriangle(rf, mf, rpts, mpts, chunk) ==
    /\ rf.support_points = Corners(rpts, chunk)
    /\ mf.support_points = Corners(mpts, chunk)
    /\ (rf.boundary = None) <=> (mf.boundary = None)
    /\ rf.boundary # None =>
          /\ rf.boundary.v.kind = mf.boundary.v.kind
          /\ Len(rf.boundary.v.coords) = Len(mf.boundary.v.coords)
          /\ \A k \in 1..Len(rf.boundary.v.coords) :
                \E j \in 1..3 : /\ rf.boundary.v.coords[k] = At(rpts, chunk[j])
                                 /\ mf.boundary.v.coords[k] = At(mpts, chunk[j])

\* C14: in every triangulated transform built by from_tie_points the raster
\* mesh and the model mesh have the same number of faces, one per triangle
\* of the single triangulation of the raster points, and face i of both is
\* built from triangle i: the same three tie point indices in the same
\* vertex order and the same kind of boundary over the same vertices; only
\* the coordinate values differ.
C14_MeshesShareTopology ==
    Built =>
        /\ Len(transform.v.raster_mesh) = Len(transform.v.model_mesh)
        /\ Len(transform.v.raster_mesh) = Len(triangulation.triangles) \div 3
        /\ \A i \in 1..Len(transform.v.raster_mesh) :
              SameTriangle(transform.v.raster_mesh[i], transform.v.model_mesh[i],
                           ChunkPoints(tie_points_tag.v, 0), ChunkPoints(tie_points_tag.v, 3),
                           SubSeq(triangulation.triangles, 3 * i - 2, 3 * i))

C14_Witness ==
    /\ Built /\ Len(transform.v.raster_mesh) = 7
    /\ transform.v.raster_mesh # transform.v.model_mesh
    /\ \E i, j \in 1..7 :
          /\ transform.v.model_mesh[i].boundary.v.kind = "Open"
          /\ Len(transform.v.model_mesh[i].boundary.v.coords) = 3
          /\ transform.v.model_mesh[j].boundary.v.kind = "Closed"

\* -0.5 for an image whose raster type is RasterPixelIsPoint, 0 otherwise.
PointOffset ==
    IF geotiff.v.raster_type = Some(RasterPixelIsPoint) THEN Scaled(-1, -1) ELSE FromInt(0)

\* get_value_at was called with a sample of the image and has returned or panicked.
GetValueAtDone ==
    /\ Len(calls) = 1 /\ calls[1].op = "get_value_at"
    /\ calls[1].sample < geotiff.v.num_samples

\* The largest integer not above a, for 0 <= a < 8.
Floor(a) == CHOOSE n \in 0..7 : FLe(FromInt(n), a) /\ FLt(a, FromInt(n + 1))

\* (x, y) is outside the half-open window of the raster.
OutsideWindow(x, y) ==
    \/ FLt(x, FromInt(0)) \/ FGe(x, FromInt(geotiff.v.raster_width))
    \/ FLt(y, FromInt(0)) \/ FGe(y, FromInt(geotiff.v.raster_height))

\* (floor(y) * raster_width + floor(x)) * num_samples + sample
LinearIndex(x, y, sample) ==
    (Floor(y) * geotiff.v.raster_width + Floor(x)) * geotiff.v.num_samples + sample

\* out is what the window gives for the raster coordinates (x, y), the
\* raster offset subtracted.
WindowGives(x, y, sample, out) ==
    /\ out # Panic
    /\ out = None <=> OutsideWindow(x, y)
    /\ out # None =>
          /\ out = Some(RasterValue(LinearIndex(x, y, sample)))
          /\ LinearIndex(x, y, sample) <
                 geotiff.v.raster_width * geotiff.v.raster_height * geotiff.v.num_samples

\* out is what get_value_at gives for the raster coordinate r.
RasterGives(r, offset, sample, out) ==
    IF r = Panic THEN out = Panic
    ELSE WindowGives(FSub(r.x, offset), FSub(r.y, offset), sample, out)

\* P is outside the rectangle.
OutsideRect(P, rect) ==
    \/ FLt(P.x, rect.min.x) \/ FGt(P.x, rect.max.x)
    \/ FLt(P.y, rect.min.y) \/ FGt(P.y, rect.max.y)

\* The rectangles model_extent returns for the image.
Extents == model_extent(geotiff.v, transform) \ {Panic}

AxisAligned ==
    \/ transform = None
    \/ transform.v.variant = "TiePointAndPixelScale"
    \/ /\ transform.v.variant = "AffineTransform"
       /\ IsZero(transform.v.transform[2]) /\ IsZero(transform.v.transform[4])

ModelExtentDone == Len(calls) = 1 /\ calls[1].op = "model_extent"

\* What transform_to_model can give for the raster corner c, c itself
\* without a coordinate transform.
Mapped(c) == IF transform = None THEN {c} ELSE transform_to_model(transform.v, c)

\* The rectangle spanned by two points.
Spanned(c1, c2) ==
    [min |-> Coord(FMin(c1.x, c2.x), FMin(c1.y, c2.y)),
     max |-> Coord(FMax(c1.x, c2.x), FMax(c1.y, c2.y))]

\* out is the rectangle spanned by c1 and c2, a panic if the mapping of one panicked.
SpansCorners(out, c1, c2) ==
    IF c1 = Panic \/ c2 = Panic THEN out = Panic ELSE out = Spanned(c1, c2)

\* The raster corners (o, o) and (raster_width + o, raster_height + o).
NearCorner == Coord(PointOffset, PointOffset)

FarCorner ==
    Coord(FAdd(FromInt(geotiff.v.raster_width), PointOffset),
          FAdd(FromInt(geotiff.v.raster_height), PointOffset))

Excluded(mesh, P) ==
    {i \in 1..Len(mesh) :
        /\ contains(mesh[i], P)
        /\ ~EnvelopeIntersectsPoint(compute_envelope(mesh[i]), P)}

\* C17: the envelope that the spatial index holds for a face leaves out no
\* point the face contains: for every face that build_faces built, of
\* either mesh, and every point P, Face::contains(P) implies that P lies in
\* compute_envelope of the face.
C17_EnvelopeCoversFace ==
    Built =>
        \A P \in QueryPoints :
            /\ Excluded(transform.v.raster_mesh, P) = {}
            /\ Excluded(transform.v.model_mesh, P) = {}

\* The faces of the mesh with a Wedge as boundary.
Wedges(mesh) == {i \in 1..Len(mesh) : mesh[i].boundary # None /\ mesh[i].boundary.v.kind = "Open"}

\* P is on the positive side of every real edge of the wedge and of its two
\* virtual edges, the second one leaving the last boundary coordinate.
InsideWedge(coords, from_ray, to_ray, P) ==
    /\ \A k \in 1..(Len(coords) - 1) : check(coords[k], coords[k + 1], P)
    /\ check(CoordAdd(coords[1], from_ray), coords[2], P)
    /\ check(coords[Len(coords)], CoordAdd(coords[Len(coords)], to_ray), P)

\* The wedges of the mesh for which contains and InsideWedge differ at P.
Misjudged(mesh, P) ==
    {i \in Wedges(mesh) :
        contains(mesh[i], P) #
            InsideWedge(mesh[i].boundary.v.coords, mesh[i].boundary.v.from_direction,
                        mesh[i].boundary.v.to_direction, P)}

\* C18: Face::contains of a Wedge with boundary coordinates coords (2 or 3
\* points) holds exactly when P is on the positive side of every real edge
\* coords[k] -> coords[k+1] and of the two virtual edges
\* (coords[0] + from_ray) -> coords[1] and coords[last] -> (coords[last] + to_ray),
\* last being the index of the final boundary coordinate.
C18_WedgeContainsByEdges ==
    Built =>
        \A P \in QueryPoints :
            /\ Misjudged(transform.v.raster_mesh, P) = {}
            /\ Misjudged(transform.v.model_mesh, P) = {}

\* A triangulated transform between evaluations: the state its construction
\* and every Return leave. No evaluation assigns to the meshes.
Idle == Built /\ pc = "ready"

\* The position of point index v on the hull cycle, and its neighbours.
HullPosition(hull, v) == CHOOSE k \in 1..Len(hull) : hull[k] = v
HullPrev(hull, v) == hull[((HullPosition(hull, v) + Len(hull) - 2) % Len(hull)) + 1]
HullNext(hull, v) == hull[(HullPosition(hull, v) % Len(hull)) + 1]

\* The outward angle bisector at the hull vertex v: the normalised sum of
\* the unit vectors prev -> v and next -> v of its two hull neighbours.
BisectorOf(points, hull, v) ==
    Bisector(At(points, HullPrev(hull, v)), At(points, v), At(points, HullNext(hull, v)))

\* The triangle chunk read from its vertex r + 1 on, in the same sense.
Rotation(chunk, r) == <<chunk[r + 1], chunk[((r + 1) % 3) + 1], chunk[((r + 2) % 3) + 1]>>

OnHull(hull, a, b) == <<a, b>> \in HullEdges(hull)

\* Of the triangle t exactly the edge t[1] -> t[2] is on the hull.
OneHullEdge(hull, t) ==
    /\ OnHull(hull, t[1], t[2])
    /\ ~OnHull(hull, t[2], t[3])
    /\ ~OnHull(hull, t[3], t[1])

\* Of the triangle t exactly the edges t[1] -> t[2] -> t[3] are on the hull.
TwoHullEdges(hull, t) ==
    /\ OnHull(hull, t[1], t[2])
    /\ OnHull(hull, t[2], t[3])
    /\ ~OnHull(hull, t[3], t[1])

IsWedge(face) == face.boundary # None /\ face.boundary.v.kind = "Open"

\* The rays of the wedge are the bisectors at the hull vertices a and b.
RaysAt(face, points, hull, a, b) ==
    {face.boundary.v.from_direction, face.boundary.v.to_direction}
        = {BisectorOf(points, hull, a), BisectorOf(points, hull, b)}

\* A wedge over the hull edge t[1] -> t[2] alone.
OverHullEdge(face, points, hull, t) ==
    /\ IsWedge(face)
    /\ Len(face.boundary.v.coords) = 2
    /\ {face.boundary.v.coords[1], face.boundary.v.coords[2]} = {At(points, t[1]), At(points, t[2])}
    /\ RaysAt(face, points, hull, t[1], t[2])

\* A wedge closed at the two edges t[2] -> t[3] -> t[1] that are not on the
\* hull, with its rays at the ends t[2] and t[1] of the hull edge.
ClosedAtTwoEdges(face, points, hull, t) ==
    /\ IsWedge(face)
    /\ face.boundary.v = Open(<<At(points, t[2]), At(points, t[3]), At(points, t[1])>>,
                              BisectorOf(points, hull, t[2]), BisectorOf(points, hull, t[1]))

\* Triangle i of the triangulation, read from its vertex r + 1 on.
TriangleFrom(tri, i, r) == Rotation(SubSeq(tri.triangles, 3 * i - 2, 3 * i), r)

\* The triangles with exactly one hull edge, each read from the start of
\* that edge on.
OneEdgeTriangles(tri) ==
    {ir \in (1..(Len(tri.triangles) \div 3)) \X (0..2) : OneHullEdge(tri.hull, TriangleFrom(tri, ir[1], ir[2]))}

\* C19: for a triangle with exactly one of its three edges on the hull,
\* build_faces produces a Wedge over that single hull edge: its boundary
\* coordinates are that edge's two endpoints and its from/to rays are the
\* angle bisectors at those two endpoints.
C19_WedgeOverSingleHullEdge ==
    Built =>
        /\ \A ir \in OneEdgeTriangles(triangulation) :
              OverHullEdge(transform.v.raster_mesh[ir[1]], ChunkPoints(tie_points_tag.v, 0), triangulation.hull,
                  TriangleFrom(triangulation, ir[1], ir[2]))
        /\ \A ir \in OneEdgeTriangles(triangulation) :
              OverHullEdge(transform.v.model_mesh[ir[1]], ChunkPoints(tie_points_tag.v, 3), triangulation.hull,
                  TriangleFrom(triangulation, ir[1], ir[2]))

\* C19 as the code has it: for a triangle with exactly one edge a -> b on the
\* hull and the opposite vertex c, build_faces produces a Wedge whose
\* boundary coordinates are the three points b, c, a (the chain of the two
\* edges that are not on the hull), whose from ray is the angle bisector at b
\* and whose to ray is the angle bisector at a.
C19_WedgeClosedAtTwoEdges ==
    Idle =>
        /\ \A ir \in OneEdgeTriangles(triangulation) :
              ClosedAtTwoEdges(transform.v.raster_mesh[ir[1]], ChunkPoints(tie_points_tag.v, 0), triangulation.hull,
                  TriangleFrom(triangulation, ir[1], ir[2]))
        /\ \A ir \in OneEdgeTriangles(triangulation) :
              ClosedAtTwoEdges(transform.v.model_mesh[ir[1]], ChunkPoints(tie_points_tag.v, 3), triangulation.hull,
                  TriangleFrom(triangulation, ir[1], ir[2]))

C19_Witness ==
    /\ Built
    /\ \E i \in 1..Len(transform.v.raster_mesh) : \E r \in 0..2 :
          /\ <<i, r>> \in OneEdgeTriangles(triangulation)
          /\ IsWedge(transform.v.raster_mesh[i])
          /\ IsWedge(transform.v.model_mesh[i])

\* A wedge over the chain t[1] -> t[2] -> t[3] of the two hull edges, with
\* its rays at the ends t[3] and t[1] of the edge that is not on the hull.
OverHullChain(face, points, hull, t) ==
    /\ IsWedge(face)
    /\ Len(face.boundary.v.coords) = 3
    /\ {face.boundary.v.coords[k] : k \in 1..3} = {At(points, t[1]), At(points, t[2]), At(points, t[3])}
    /\ face.boundary.v.coords[2] = At(points, t[2])
    /\ RaysAt(face, points, hull, t[3], t[1])

\* A wedge closed at the edge t[3] -> t[1] that is not on the hull, with its
\* rays at the ends of that edge.
ClosedAtOneEdge(face, points, hull, t) ==
    /\ IsWedge(face)
    /\ face.boundary.v = Open(<<At(points, t[3]), At(points, t[1])>>,
                              BisectorOf(points, hull, t[3]), BisectorOf(points, hull, t[1]))

\* The triangles with exactly two hull edges, each read from the start of
\* the first of them on.
TwoEdgeTriangles(tri) ==
    {ir \in (1..(Len(tri.triangles) \div 3)) \X (0..2) : TwoHullEdges(tri.hull, TriangleFrom(tri, ir[1], ir[2]))}

\* C20: for a triangle with exactly two of its three edges on the hull,
\* build_faces produces a Wedge whose from/to rays are the angle bisectors at
\* the two endpoints of the triangle's one non-hull edge and whose boundary
\* coordinates are the points of the hull-edge chain between those two
\* endpoints.
C20_WedgeSpansHullChain ==
    Built =>
        /\ \A ir \in TwoEdgeTriangles(triangulation) :
              OverHullChain(transform.v.raster_mesh[ir[1]], ChunkPoints(tie_points_tag.v, 0), triangulation.hull,
                  TriangleFrom(triangulation, ir[1], ir[2]))
        /\ \A ir \in TwoEdgeTriangles(triangulation) :
              OverHullChain(transform.v.model_mesh[ir[1]], ChunkPoints(tie_points_tag.v, 3), triangulation.hull,
                  TriangleFrom(triangulation, ir[1], ir[2]))

\* C20 as the code has it: for a triangle with exactly two edges a -> b -> c
\* on the hull, build_faces produces a Wedge whose boundary coordinates are
\* the two endpoints c, a of the one edge that is not on the hull, whose from
\* ray is the angle bisector at c and whose to ray is the angle bisector at a.
C20_WedgeClosedAtNonHullEdge ==
    Idle =>
        /\ \A ir \in TwoEdgeTriangles(triangulation) :
              ClosedAtOneEdge(transform.v.raster_mesh[ir[1]], ChunkPoints(tie_points_tag.v, 0), triangulation.hull,
                  TriangleFrom(triangulation, ir[1], ir[2]))
        /\ \A ir \in TwoEdgeTriangles(triangulation) :
              ClosedAtOneEdge(transform.v.model_mesh[ir[1]], ChunkPoints(tie_points_tag.v, 3), triangulation.hull,
                  TriangleFrom(triangulation, ir[1], ir[2]))

C20_Witness ==
    /\ Built
    /\ \E i \in 1..Len(transform.v.raster_mesh) : \E r \in 0..2 :
          /\ <<i, r>> \in TwoEdgeTriangles(triangulation)
          /\ IsWedge(transform.v.raster_mesh[i])
          /\ IsWedge(transform.v.model_mesh[i])

\* All three edges of the triangle t are on the hull.
ThreeHullEdges(hull, t) == OnHull(hull, t[1], t[2]) /\ OnHull(hull, t[2], t[3]) /\ OnHull(hull, t[3], t[1])

\* No edge of the triangle t is on the hull.
NoHullEdge(hull, t) == ~OnHull(hull, t[1], t[2]) /\ ~OnHull(hull, t[2], t[3]) /\ ~OnHull(hull, t[3], t[1])

\* P is on the positive side of the three edges c1 -> c2, c2 -> c3, c3 -> c1.
InsideTriangle(c, P) == check(c[1], c[2], P) /\ check(c[2], c[3], P) /\ check(c[3], c[1], P)

\* An unconstrained face: no boundary, and every point is contained.
IsInterior(face) ==
    /\ face.boundary = None
    /\ \A P \in QueryPoints : contains(face, P)

\* A closed triangle over the corners c: the boundary c1, c2, c3, c1, and the
\* points contained are those on the positive side of its three edges.
IsClosedTriangle(face, c) ==
    /\ face.boundary = Some(Closed(<<c[1], c[2], c[3], c[1]>>))
    /\ \A P \in QueryPoints : contains(face, P) <=> InsideTriangle(c, P)

\* The face of a triangle with three hull edges is unconstrained, and the
\* face of a triangle without hull edge is a closed triangle.
Classified(mesh, points, tri) ==
    \A i \in 1..Len(mesh) :
        /\ ThreeHullEdges(tri.hull, TriangleFrom(tri, i, 0)) => IsInterior(mesh[i])
        /\ NoHullEdge(tri.hull, TriangleFrom(tri, i, 0))
              => IsClosedTriangle(mesh[i], Corners(points, TriangleFrom(tri, i, 0)))

\* C21: build_faces classifies a triangle with all three edges on the hull
\* as Interior (no boundary; contains is true for every point) and a
\* triangle with no edge on the hull as ClosedTriangle with the four
\* boundary coordinates c1, c2, c3, c1, whose contains holds exactly when P
\* is on the positive side of all three edges c1 -> c2, c2 -> c3, c3 -> c1.
C21_InteriorAndClosedFaces ==
    Idle =>
        /\ Classified(transform.v.raster_mesh, ChunkPoints(tie_points_tag.v, 0), triangulation)
        /\ Classified(transform.v.model_mesh, ChunkPoints(tie_points_tag.v, 3), triangulation)

\* A mesh with a closed triangle that holds one of the points and not another.
C21_Witness ==
    /\ Idle
    /\ \E i \in 1..Len(transform.v.model_mesh) :
          /\ NoHullEdge(triangulation.hull, TriangleFrom(triangulation, i, 0))
          /\ \E P \in QueryPoints : contains(transform.v.model_mesh[i], P)
          /\ \E P \in QueryPoints : ~contains(transform.v.model_mesh[i], P)

\* A mesh of a single triangle, all of whose edges are on the hull.
SingleTriangle ==
    /\ Idle
    /\ \E i \in 1..Len(transform.v.raster_mesh) :
          ThreeHullEdges(triangulation.hull, TriangleFrom(triangulation, i, 0))

\* contains_sequence has returned.
Looked == pc = "answered" /\ unit # None /\ calls[1].op = "contains_sequence"

\* The hull lists a immediately before b, wrapping from the last entry to the first.
ListedBefore(hull, a, b) == \E i \in 1..Len(hull) : hull[i] = a /\ hull[(i % Len(hull)) + 1] = b

\* A hull cycle of three or more distinct point indices.
IsCycle(hull) == Len(hull) >= 3 /\ \A i, j \in 1..Len(hull) : hull[i] = hull[j] => i = j

C30_ContainsSequenceOfTwo ==
    Looked =>
        /\ SlicesInBounds(unit.v.hull, unit.v.seq)
        /\ unit.v.hull = << >> => ~calls[1].out
        /\ Len(unit.v.seq) = 2 =>
              (calls[1].out <=> \E i \in 0..(Len(unit.v.hull) - 1) :
                                    /\ At(unit.v.hull, i) = unit.v.seq[1]
                                    /\ At(unit.v.hull, (i + 1) % Len(unit.v.hull)) = unit.v.seq[2])

\* A pair found only across the wrap from the last hull entry to the first.
C30_Witness ==
    /\ Looked
    /\ Len(unit.v.seq) = 2
    /\ Len(unit.v.hull) >= 3
    /\ calls[1].out
    /\ unit.v.hull[Len(unit.v.hull)] = unit.v.seq[1]
    /\ unit.v.hull[1] = unit.v.seq[2]
    /\ \A i \in 1..(Len(unit.v.hull) - 1) : ~(unit.v.hull[i] = unit.v.seq[1] /\ unit.v.hull[i + 1] = unit.v.seq[2])

\* A pair looked up in a hull of one entry, shorter than the pair.
ShortHull == Looked /\ Len(unit.v.seq) = 2 /\ Len(unit.v.hull) = 1 /\ calls[1].out

\* (1 - u - v) * a + u * b + v * c on one axis.
BarycentricAxis(u, v, a, b, c) ==
    FAdd(FAdd(FMul(FSub(FSub(FromInt(1), u), v), a), FMul(u, b)), FMul(v, c))

\* (1 - u - v) * A + u * B + v * C for the support points A, B, C of the face.
Barycentric(face, uv) ==
    Coord(BarycentricAxis(uv[1], uv[2], face.support_points[1].x, face.support_points[2].x, face.support_points[3].x),
          BarycentricAxis(uv[1], uv[2], face.support_points[1].y, face.support_points[2].y, face.support_points[3].y))

\* The face is not degenerate: the determinant d of locate is not zero.
NonDegenerate(face) ==
    ~IsZero(LocateD(face.support_points[1], face.support_points[2], face.support_points[3]))

\* The mesh searched and the mesh interpolated in by the k-th evaluation.
SourceMesh(k) ==
    IF calls[k].op = "transform_to_model" THEN transform.v.raster_mesh ELSE transform.v.model_mesh

TargetMesh(k) ==
    IF calls[k].op = "transform_to_model" THEN transform.v.model_mesh ELSE transform.v.raster_mesh

\* The latest evaluation of a triangulated transform, if it returned a
\* coordinate: every evaluation is the latest in the state that follows it.
Answers == IF Built THEN {k \in {Len(calls)} \ {0} : calls[k].out # Panic} ELSE {}

\* out is the barycentric combination of the target face for the parameters
\* uv, which reproduce P in the source face, also through interpolate.
ByBarycentric(source, target, uv, P, out) ==
    /\ CoordEq(out, Barycentric(target, uv))
    /\ NonDegenerate(source) =>
          /\ CoordEq(Barycentric(source, uv), P)
          /\ CoordEq(interpolate(source, uv), P)

\* C23: the triangulated transform of P is (1-u-v)*A' + u*B' + v*C', where
\* (u, v) = locate(P) are the barycentric parameters of P in the matched
\* source face, satisfying P = (1-u-v)*A + u*B + v*C, and A', B', C' are the
\* support points of the target face at the same index; transform_to_model
\* searches the raster mesh and interpolates in the model mesh,
\* transform_to_raster does the reverse; interpolate(locate(P)) on one and
\* the same non-degenerate face returns P.
C23_BarycentricTransform ==
    \A k \in Answers : \E i \in 1..Len(SourceMesh(k)) :
        /\ contains(SourceMesh(k)[i], calls[k].coord)
        /\ ByBarycentric(SourceMesh(k)[i], TargetMesh(k)[i],
                         locate(SourceMesh(k)[i], calls[k].coord), calls[k].coord, calls[k].out)

\* A face and a point on which every operation of locate and interpolate is
\* exact: a determinant of 1 or -1 and coordinates that are small integers.
ExactFace(source, target, P) ==
    /\ FEq(FAbs(LocateD(source.support_points[1], source.support_points[2], source.support_points[3])), FromInt(1))
    /\ \A j \in 1..3 : /\ SmallInteger(source.support_points[j].x) /\ SmallInteger(source.support_points[j].y)
                        /\ SmallInteger(target.support_points[j].x) /\ SmallInteger(target.support_points[j].y)
    /\ SmallInteger(P.x) /\ SmallInteger(P.y)

\* out is what interpolate computes in the target face for the parameters
\* uv; on an exact face this is the barycentric combination, and uv
\* reproduce P in the source face.
ByInterpolate(source, target, uv, P, out) ==
    /\ out = interpolate(target, uv)
    /\ ExactFace(source, target, P) => ByBarycentric(source, target, uv, P, out)

\* C23 as the code has it: the result is interpolate(locate(P)) with locate
\* in a face of the searched mesh that contains P and interpolate in the
\* face of the other mesh at the same index, each computed in f64;
\* transform_to_model searches the raster mesh, transform_to_raster the
\* model mesh. The result is the barycentric combination, and
\* interpolate(locate(P)) on one face returns P, exactly when every
\* operation is exact, as for a face with determinant 1 or -1 and small
\* integer coordinates.
C23_InterpolateOfLocate ==
    \A k \in Answers : \E i \in 1..Len(SourceMesh(k)) :
        /\ contains(SourceMesh(k)[i], calls[k].coord)
        /\ ByInterpolate(SourceMesh(k)[i], TargetMesh(k)[i],
                         locate(SourceMesh(k)[i], calls[k].coord), calls[k].coord, calls[k].out)

\* transform_to_model has answered from an exact face, away from its first
\* support point.
C23_Witness ==
    /\ Built /\ pc = "answered" /\ calls[1].op = "transform_to_model" /\ calls[1].out # Panic
    /\ \E i \in 1..Len(transform.v.raster_mesh) :
          /\ contains(transform.v.raster_mesh[i], calls[1].coord)
          /\ ExactFace(transform.v.raster_mesh[i], transform.v.model_mesh[i], calls[1].coord)
          /\ calls[1].out = interpolate(transform.v.model_mesh[i], locate(transform.v.raster_mesh[i], calls[1].coord))
          /\ ~CoordEq(calls[1].out, transform.v.model_mesh[i].support_points[1])
          /\ ~CoordEq(calls[1].out, calls[1].coord)

\* The coordinates in the set of results are all equal.
Agree(outs) == \A a, b \in outs \ {Panic} : CoordEq(a, b)

\* C24: the result of a triangulated transform does not depend on the order
\* in which the spatial index returns candidate faces: whenever two or more
\* faces of the source mesh contain the same point P, interpolating P
\* through any of those faces yields the same target coordinate, so two
\* evaluations of the same P on the same tie points always agree.
C24_FaceOrderIrrelevant ==
    Idle => \A P \in QueryPoints :
        /\ Agree(transform_to_model(transform.v, P))
        /\ Agree(transform_to_raster(transform.v, P))

\* The index holds exactly one item per face of the mesh.
OnePerFace(index, mesh) ==
    /\ Len(index) = Len(mesh)
    /\ \A f \in 0..(Len(mesh) - 1) : Cardinality({i \in 1..Len(index) : index[i].index = f}) = 1

\* from_tag_data was given two or more tie points alone, which it hands to
\* from_tie_points.
TiePointsGiven ==
    /\ Constructed /\ tie_points_feature
    /\ pixel_scale_tag = None /\ transformation_tag = None
    /\ ValidTiePoints /\ Len(tie_points_tag.v) >= 12

\* C25: from_tie_points never returns an error: for every tie_points input
\* of two or more groups (exactly two points, duplicate points and
\* all-collinear points, with zero triangles, included) it returns
\* Ok(Triangulated) whose raster and model meshes each have exactly one
\* face per triangle of the triangulation and whose two indexes each have
\* exactly one entry per face.
C25_FromTiePointsIsOk ==
    TiePointsGiven =>
        /\ returned.tag = "Ok" /\ returned.v.variant = "TiePoints"
        /\ Len(returned.v.raster_mesh) = Len(triangulation.triangles) \div 3
        /\ Len(returned.v.model_mesh) = Len(triangulation.triangles) \div 3
        /\ OnePerFace(returned.v.raster_index, returned.v.raster_mesh)
        /\ OnePerFace(returned.v.model_index, returned.v.model_mesh)

\* Equal tie points, of which the hull lists one, built into empty meshes.
C25_Witness ==
    /\ TiePointsGiven /\ returned.tag = "Ok"
    /\ ChunkPoints(tie_points_tag.v, 0)[1] = ChunkPoints(tie_points_tag.v, 0)[2]
    /\ triangulation.hull = <<0>>
    /\ returned.v.raster_mesh = << >> /\ returned.v.raster_index = << >>

\* Three collinear tie points built into empty meshes.
CollinearBuilt ==
    /\ TiePointsGiven /\ returned.tag = "Ok"
    /\ Len(tie_points_tag.v) = 18 /\ triangulation.triangles = << >>

\* build_faces has returned or panicked.
Faced == pc \in {"answered", "panicked"} /\ unit # None /\ calls[1].op = "build_faces"

\* The vertex is an endpoint of an edge of the chunk that contains_sequence
\* finds in the hull.
OnDetectedEdge(hull, chunk, v) ==
    \E r \in 0..2 : /\ contains_sequence(hull, <<Rotation(chunk, r)[1], Rotation(chunk, r)[2]>>)
                    /\ v \in {Rotation(chunk, r)[1], Rotation(chunk, r)[2]}

\* The rays of the face built are the entries of the vertices in origins.
RaysOf(face, bisectors, origins) ==
    IF origins = << >> THEN ~IsWedge(face)
    ELSE /\ IsWedge(face)
         /\ face.boundary.v.from_direction = At(bisectors, origins[1]).v
         /\ face.boundary.v.to_direction = At(bisectors, origins[2]).v

\* C27: in build_faces every angle-bisector lookup made while constructing a
\* Wedge refers to a vertex that occurs in the hull cycle, so its entry was
\* filled by the hull loop and the unwrap never panics: every hull vertex
\* gets a bisector, and a triangle vertex is used as from/to ray origin only
\* if it is an endpoint of an edge detected as a hull edge.
C27_BisectorLookupsAreFilled ==
    Faced =>
        /\ calls[1].out # Panic
        /\ \A j \in 1..Len(unit.v.hull) : At(angle_bisectors(IndexedPoints, unit.v.hull), unit.v.hull[j]) # None
        /\ \A k \in 1..Len(RayOrigins(unit.v.hull, unit.v.chunk)) :
              /\ OnDetectedEdge(unit.v.hull, unit.v.chunk, RayOrigins(unit.v.hull, unit.v.chunk)[k])
              /\ \E j \in 1..Len(unit.v.hull) : unit.v.hull[j] = RayOrigins(unit.v.hull, unit.v.chunk)[k]
        /\ RaysOf(calls[1].out.v[1], angle_bisectors(IndexedPoints, unit.v.hull), RayOrigins(unit.v.hull, unit.v.chunk))

\* A wedge built for a triangle with one edge on a hull of three vertices.
C27_Witness ==
    /\ Faced /\ calls[1].out # Panic
    /\ IsCycle(unit.v.hull)
    /\ OneHullEdge(unit.v.hull, unit.v.chunk)
    /\ IsWedge(calls[1].out.v[1])
    /\ Len(calls[1].out.v[1].boundary.v.coords) = 3

\* The length error of the tag, if it is present with an invalid number of values.
PixelScaleLengthErrors == {PixelScaleLenMsg : x \in {t \in {pixel_scale_tag} \ {None} : Len(t.v) # 3}}

TiePointLengthErrors ==
    {IF Len(x.v) = 0 THEN TiePointEmptyMsg ELSE TiePointLenMsg :
        x \in {t \in {tie_points_tag} \ {None} : Len(t.v) = 0 \/ Len(t.v) % 6 # 0}}

MatrixLengthErrors == {TransformationLenMsg : x \in {t \in {transformation_tag} \ {None} : Len(t.v) # 16}}

\* The length error of the first invalid tag in the order pixel scale, tie
\* points, transformation matrix.
FirstLengthError ==
    IF PixelScaleLengthErrors # {} THEN PixelScaleLengthErrors
    ELSE IF TiePointLengthErrors # {} THEN TiePointLengthErrors
    ELSE MatrixLengthErrors

\* C26: in from_tag_data all three length validations run before any
\* presence or exclusivity rule, in the order pixel scale, tie points,
\* transformation matrix: whenever a present array has an invalid length
\* the error returned is the length error of the first such array in that
\* order, even if the input also violates mutual exclusivity.
C26_LengthsValidatedFirst ==
    Constructed => \A msg \in FirstLengthError : returned = FormatError(msg)

\* A valid matrix with a pixel scale of two values: the pixel scale's length
\* error, not the exclusivity error.
C26_Witness ==
    /\ Constructed
    /\ ValidMatrix
    /\ pixel_scale_tag = Some(Prefix(PixelScaleValues, 2))
    /\ returned = FormatError(PixelScaleLenMsg)

\* A sample lookup has returned or panicked.
LookedUp(op) == geotiff # None /\ Len(calls) = 1 /\ calls[1].op = op

\* The sample asked for is not a sample of the image.
SampleBeyond == calls[1].sample >= geotiff.v.num_samples

\* The pixel asked for is not a pixel of the image.
PixelBeyond == calls[1].x >= geotiff.v.raster_width \/ calls[1].y >= geotiff.v.raster_height

\* C28: the two sample lookups order their checks differently: get_value_at
\* (via compute_index) panics whenever sample >= num_samples, before the
\* coordinate is transformed or bounds-checked, so even for a coordinate
\* outside the raster; get_value_at_pixel checks the pixel bounds first and
\* returns None for x >= raster_width or y >= raster_height even when
\* sample >= num_samples, and panics on an out-of-range sample only for an
\* in-range pixel.
C28_SampleCheckOrder ==
    /\ LookedUp("get_value_at") /\ SampleBeyond => calls[1].out = Panic
    /\ LookedUp("get_value_at_pixel") =>
          /\ PixelBeyond => calls[1].out = None
          /\ ~PixelBeyond /\ SampleBeyond => calls[1].out = Panic
          /\ ~PixelBeyond /\ ~SampleBeyond => calls[1].out \notin {None, Panic}

\* get_value_at_pixel asked for a sample beyond the samples at a pixel beyond
\* the image.
C28_Witness ==
    /\ LookedUp("get_value_at_pixel")
    /\ PixelBeyond /\ SampleBeyond
    /\ calls[1].out = None

\* get_value_at asked for a sample beyond the samples at a coordinate
\* outside the raster.
SampleBeyondOutside ==
    /\ LookedUp("get_value_at") /\ SampleBeyond
    /\ transform = None
    /\ FLt(calls[1].coord.x, Zero(0))
    /\ calls[1].out = Panic

\* get_string has returned or panicked for a key located in the ASCII
\* parameters.
AsciiLooked ==
    /\ unit # None
    /\ Len(calls) = 1
    /\ calls[1].op = "get_string"
    /\ unit.v.location_tag = Some("GeoAsciiParamsTag")

\* The count - 1 characters data[offset .. offset + count - 1] lie within
\* the data.
ParameterWithin ==
    /\ unit.v.count >= 1
    /\ unit.v.offset + unit.v.count - 1 < Len(unit.v.data)

\* The count - 1 characters data[offset .. offset + count - 1].
Parameter == SubSeq(unit.v.data, unit.v.offset + 1, unit.v.offset + unit.v.count - 1)

\* C29: get_string, for a key located in the ASCII params tag and any u16
\* offset and count, either returns a format error or returns exactly the
\* count - 1 characters data[offset .. offset + count - 1], and never panics.
C29_GetStringNeverPanics ==
    AsciiLooked =>
        \/ calls[1].out.tag = "Err"
        \/ /\ ParameterWithin
           /\ calls[1].out = Ok(Parameter)

\* Whenever get_string returns a string it is the count - 1 characters at
\* the offset, and it panics only for a count of 0 or a sum beyond u16::MAX.
GetStringPanicsOnlyOnArithmetic ==
    AsciiLooked =>
        \/ calls[1].out.tag = "Err"
        \/ /\ ParameterWithin
           /\ calls[1].out = Ok(Parameter)
        \/ /\ calls[1].out = Panic
           /\ unit.v.count = 0 \/ unit.v.offset + unit.v.count > U16_MAX

\* A count of 0 at an offset of 1 or more within the data: the slice starts
\* beyond its end, a panic in every build.
EmptyCountPanics ==
    /\ AsciiLooked
    /\ unit.v.count = 0
    /\ unit.v.offset >= 1
    /\ unit.v.offset < Len(unit.v.data)
    => calls[1].out = Panic

\* get_string has panicked for a count of 0 within the data.
EmptyCountPanicked ==
    /\ AsciiLooked
    /\ unit.v.count = 0
    /\ unit.v.offset >= 1
    /\ calls[1].out = Panic

====
